---------------------------- MODULE Spec2Model ----------------------------
(***************************************************************************)
(* Claim negotiation decision pipeline: the escalation engine              *)
(* (src/src/agents/escalation_manager.py), the negotiation pipeline of     *)
(* ClaimNegotiationAgent (src/src/agents/claim_negotiator.py) and the      *)
(* audit store it writes to (src/src/hooks/audit_logger.py).               *)
(*                                                                         *)
(* Conventions.  Scores in [0,1] (stress_level, anger, distress,           *)
(* fraud_risk_score) are kept in hundredths: 0.8 is 80.  Python strings    *)
(* that are searched are sequences of one-character strings, so that       *)
(* lower(), ' '.join() and the `in` substring test are computed.  A Python *)
(* dict is a function whose DOMAIN is the set of keys present.             *)
(***************************************************************************)
EXTENDS Integers, Sequences, FiniteSets, TLC

VARIABLES
    context,               \* the EscalationContext handed to evaluate_escalation_need
    emotion_result,        \* the emotion_result dict handed to evaluate
    claim_data,            \* the claim_data dict handed to evaluate
    escalation_evaluation, \* what evaluate_escalation_need returned, or NotCalled
    simple_evaluation,     \* what evaluate returned, or NotCalled
    unchecked,             \* evaluate_escalation_need's loop: the triggers still to check
    loop,                  \* its locals triggered_reasons and severity_score
    negotiation,           \* per negotiation: the frame of negotiate_claim_full_pipeline
    audit_entries,         \* agent.audit_manager.audit_entries
    compliance_args,       \* the arguments of ComplianceCheckTool.run
    compliance_report,     \* the ComplianceReport it returned last, or NotCalled
    processing_day,        \* datetime.now().weekday() as its last call read it
    settlement_args,       \* the arguments of SettlementOfferTool.run
    settlement_offer,      \* the SettlementOfferResult it returned, or NotCalled
    precedent_args,        \* the arguments of PrecedentAnalysisTool.run
    mock_data,             \* the contents of the file at mock_data_path
    recommendation,        \* the SettlementRecommendation it returned, or NotCalled
    audit_result,          \* the last AuditTrailManager call and what it returned
    success_probability,    \* what _calculate_success_probability returned, or NotCalled
    hume,                   \* the frame of HumeEmotionAnalysisTool.run: position, locals, result
    policy_lookup,          \* PolicyLookupTool.run: the database file, the argument, the outcome
    hook_call,              \* before_tool_call: the tool, its kwargs, what the hook returned
    conversation,           \* a ConversationState, with the flag_for_escalation calls made on it
    recovery               \* an ErrorRecoveryManager, with the last call made on it

escVars == <<context, emotion_result, claim_data, escalation_evaluation, simple_evaluation>>

loopVars == <<unchecked, loop>>

pipelineVars == <<negotiation, audit_entries>>

complianceVars == <<compliance_args, compliance_report, processing_day>>

settlementVars == <<settlement_args, settlement_offer>>

precedentVars == <<precedent_args, mock_data, recommendation>>

\* everything but the supporting services
coreVars == <<escVars, loopVars, pipelineVars, complianceVars, settlementVars, precedentVars,
              audit_result>>

serviceVars == <<success_probability, hume, policy_lookup, hook_call, conversation, recovery>>

toolVars == <<complianceVars, settlementVars, precedentVars, audit_result, serviceVars>>

vars == <<escVars, loopVars, pipelineVars, toolVars>>

\* the value of a result variable before its entry point has returned
NotCalled == [called |-> FALSE]

Returned(result) == "should_escalate" \in DOMAIN result

\* Python's None where a dict is expected
NoneValue == [is_none |-> TRUE]

IsNone(d) == "is_none" \in DOMAIN d

\* a dict lists under "none_keys" the keys it holds with the value None
HasNone(d, key) == "none_keys" \in DOMAIN d /\ key \in d["none_keys"]

-----------------------------------------------------------------------------
(* Python helpers *)

\* dict.get(key, default)
Get(d, key, default) == IF key \in DOMAIN d THEN d[key] ELSE default

EmptyDict == [k \in {} |-> 0]

LowerChar(c) ==
    CASE c = "L" -> "l"
      [] c = "S" -> "s"
      [] c = "C" -> "c"
      [] c = "A" -> "a"
      [] OTHER -> c

\* str.lower()
Lower(s) == [i \in 1..Len(s) |-> LowerChar(s[i])]

\* needle in haystack, on strings
Contains(haystack, needle) ==
    \E i \in 1..(Len(haystack) - Len(needle) + 1) :
        SubSeq(haystack, i, i + Len(needle) - 1) = needle

SeqToSet(q) == {q[i] : i \in 1..Len(q)}

RECURSIVE JoinFrom(_, _)
JoinFrom(parts, i) ==
    IF i > Len(parts) THEN <<>>
    ELSE IF i = Len(parts) THEN parts[i]
    ELSE parts[i] \o <<" ">> \o JoinFrom(parts, i + 1)

\* ' '.join(parts)
Join(parts) == JoinFrom(parts, 1)

-----------------------------------------------------------------------------
(* Words of the customer's text *)

W_lawyer     == <<"l","a","w","y","e","r">>
W_Lawyer     == <<"L","a","w","y","e","r">>
W_sue        == <<"s","u","e">>
W_court      == <<"c","o","u","r","t">>
W_legal      == <<"l","e","g","a","l">>
W_action     == <<"a","c","t","i","o","n">>
W_attorney   == <<"a","t","t","o","r","n","e","y">>
W_litigation == <<"l","i","t","i","g","a","t","i","o","n">>
W_legal_action == W_legal \o <<" ">> \o W_action

-----------------------------------------------------------------------------
(* EscalationManager.TRIGGERS and the full entry point *)

LegalKeywords == <<W_lawyer, W_sue, W_court, W_legal_action, W_attorney, W_litigation>>

DistressThreshold == 80
ExtremeAngerThreshold == 90
HighValueThreshold == 50000
FraudThreshold == 70

\* the trigger table, in the order the dict literal lists it
TriggerOrder ==
    <<"legal_threat", "extreme_distress", "high_value", "fraud_suspicion", "regulatory_violation">>

TRIGGERS ==
    [legal_threat         |-> [severity |-> "high"],
     extreme_distress     |-> [severity |-> "high"],
     high_value           |-> [severity |-> "medium"],
     fraud_suspicion      |-> [severity |-> "high"],
     regulatory_violation |-> [severity |-> "critical"]]

\* lambda emotions: emotions.get('distress', 0) > 0.8 or emotions.get('anger', 0) > 0.9
emotion_check(emotions) ==
    Get(emotions, "distress", 0) > DistressThreshold
        \/ Get(emotions, "anger", 0) > ExtremeAngerThreshold

amount_check(amount) == amount > HighValueThreshold

confidence_check(confidence) == confidence > FraudThreshold

compliance_check(violations) == Len(violations) > 0

\* the conversation text the legal_threat trigger searches
ConversationText(ctx) ==
    Join([i \in 1..Len(ctx.conversation_history) |->
            Get(ctx.conversation_history[i], "text", <<>>)])

\* _check_trigger: an exception inside a check is caught and reported as False;
\* the only one the inputs here can raise is .get on an emotion_analysis of None
_check_trigger(trigger_type, ctx) ==
    CASE trigger_type = "legal_threat" ->
            \E k \in 1..Len(LegalKeywords) :
                Contains(Lower(ConversationText(ctx)), Lower(LegalKeywords[k]))
      [] trigger_type = "extreme_distress" ->
            IF IsNone(ctx.emotion_analysis) THEN FALSE
            ELSE emotion_check(ctx.emotion_analysis)
      [] trigger_type = "high_value" -> amount_check(ctx.settlement_amount)
      [] trigger_type = "fraud_suspicion" ->
            confidence_check(Get(ctx.claim_details, "fraud_risk_score", 0))
      [] trigger_type = "regulatory_violation" -> compliance_check(ctx.compliance_flags)
      [] OTHER -> FALSE

\* _get_severity_score with the 'critical' entry missing from severity_map
SeverityScoreWithoutCritical(severity) ==
    CASE severity = "low" -> 1
      [] severity = "medium" -> 3
      [] severity = "high" -> 5
      [] OTHER -> 1

_get_severity_score(severity) ==
    CASE severity = "low" -> 1
      [] severity = "medium" -> 3
      [] severity = "high" -> 5
      [] severity = "critical" -> 10
      [] OTHER -> 1

\* _determine_escalation_type with the legal test ahead of the regulatory one
EscalationTypeLegalFirst(reasons) ==
    LET has(r) == \E i \in 1..Len(reasons) : reasons[i] = r
    IN  IF has("legal_threat") THEN "legal_escalation"
        ELSE IF has("regulatory_violation") THEN "compliance_escalation"
        ELSE IF has("extreme_distress") THEN "emotional_support_escalation"
        ELSE IF has("fraud_suspicion") THEN "fraud_investigation_escalation"
        ELSE "general_escalation"

_determine_escalation_type(reasons) ==
    LET has(r) == \E i \in 1..Len(reasons) : reasons[i] = r
    IN  IF has("regulatory_violation") THEN "compliance_escalation"
        ELSE IF has("legal_threat") THEN "legal_escalation"
        ELSE IF has("extreme_distress") THEN "emotional_support_escalation"
        ELSE IF has("fraud_suspicion") THEN "fraud_investigation_escalation"
        ELSE "general_escalation"

\* the loop body with a critical trigger ending the scoring: once
\* regulatory_violation is recorded, later checks are not made
TriggerStepStopAtCritical(ctx, trigger_type, acc) ==
    IF \E i \in 1..Len(acc.triggered_reasons) :
          acc.triggered_reasons[i] = "regulatory_violation"
    THEN acc
    ELSE IF _check_trigger(trigger_type, ctx)
    THEN [triggered_reasons |-> Append(acc.triggered_reasons, trigger_type),
          severity_score    |-> acc.severity_score
                                  + _get_severity_score(TRIGGERS[trigger_type].severity)]
    ELSE acc

\* one pass of the loop body of evaluate_escalation_need
TriggerStep(ctx, trigger_type, acc) ==
    IF _check_trigger(trigger_type, ctx)
    THEN [triggered_reasons |-> Append(acc.triggered_reasons, trigger_type),
          severity_score    |-> acc.severity_score
                                  + _get_severity_score(TRIGGERS[trigger_type].severity)]
    ELSE acc

RECURSIVE TriggerLoop(_, _, _, _)
TriggerLoop(ctx, order, i, acc) ==
    IF i > Len(order) THEN acc
    ELSE TriggerLoop(ctx, order, i + 1, TriggerStep(ctx, order[i], acc))

\* the locals of evaluate_escalation_need before its loop
LoopStart == [triggered_reasons |-> <<>>, severity_score |-> 0]

\* the returned dict with should_escalate taken from the score, not the reasons
EvaluationByScore(acc) ==
    [should_escalate   |-> acc.severity_score >= 5,
     triggered_reasons |-> acc.triggered_reasons,
     severity_score    |-> acc.severity_score,
     escalation_type   |-> _determine_escalation_type(acc.triggered_reasons)]

\* the dict evaluate_escalation_need returns once its loop has ended
EvaluationOf(acc) ==
    [should_escalate   |-> Len(acc.triggered_reasons) > 0,
     triggered_reasons |-> acc.triggered_reasons,
     severity_score    |-> acc.severity_score,
     escalation_type   |-> _determine_escalation_type(acc.triggered_reasons)]

\* for trigger_type, config in self.TRIGGERS.items(): the dict's own order
evaluate_escalation_need(ctx) ==
    EvaluationOf(TriggerLoop(ctx, TriggerOrder, 1, LoopStart))

-----------------------------------------------------------------------------
(* The simplified entry point, EscalationManager.evaluate *)

StressThreshold == 70
AngerThreshold == 80
ClaimAmountThreshold == 100000

SimpleLegalKeywords == <<W_lawyer, W_attorney, W_legal_action, W_sue>>

HighStressTrigger == "High customer stress detected"
HighAngerTrigger  == "High anger level detected"
HighValueTrigger  == "High-value claim requires review"
LegalTrigger      == "Legal threat detected"

_calculate_urgency_simple(triggers) ==
    IF Len(triggers) >= 3 THEN "critical"
    ELSE IF Len(triggers) >= 2 THEN "high"
    ELSE IF Len(triggers) >= 1 THEN "medium"
    ELSE "low"

\* "legal" in trigger.lower(): of the four trigger texts only LegalTrigger holds it
_get_recommended_action_simple(triggers) ==
    IF \E i \in 1..Len(triggers) : triggers[i] = LegalTrigger
    THEN "Immediate supervisor and legal review required"
    ELSE IF Len(triggers) >= 2 THEN "Supervisor review required"
    ELSE "Continue with enhanced monitoring"

\* the four checks of evaluate, each appending its trigger text and setting
\* should_escalate
SimpleStress(er) == Get(er, "stress_level", 0) > StressThreshold

SimpleAnger(er) == Get(er, "anger", 0) > AngerThreshold

SimpleAmount(cd) == Get(cd, "estimated_amount", 0) > ClaimAmountThreshold

\* the legal check without transcript.lower()
SimpleLegalCaseSensitive(er) ==
    LET transcript == Get(er, "transcript", <<>>)
    IN  \E k \in 1..Len(SimpleLegalKeywords) : Contains(transcript, SimpleLegalKeywords[k])

SimpleLegal(er) ==
    LET transcript == Lower(Get(er, "transcript", <<>>))
    IN  \E k \in 1..Len(SimpleLegalKeywords) : Contains(transcript, SimpleLegalKeywords[k])

evaluate(er, cd) ==
    LET t1 == IF SimpleStress(er) THEN <<HighStressTrigger>> ELSE <<>>
        t2 == IF SimpleAnger(er) THEN Append(t1, HighAngerTrigger) ELSE t1
        t3 == IF SimpleAmount(cd) THEN Append(t2, HighValueTrigger) ELSE t2
        t4 == IF SimpleLegal(er) THEN Append(t3, LegalTrigger) ELSE t3
    IN  [should_escalate     |-> SimpleStress(er) \/ SimpleAnger(er)
                                    \/ SimpleAmount(cd) \/ SimpleLegal(er),
         escalation_triggers |-> t4,
         urgency_level       |-> _calculate_urgency_simple(t4),
         recommended_action  |-> _get_recommended_action_simple(t4)]

-----------------------------------------------------------------------------
(* The negotiations an agent runs, before any has started *)

NumNegotiations == 2

Negotiations == 1..NumNegotiations

NotStarted ==
    [pc                |-> "idle",
     claim_data        |-> EmptyDict,
     discrete_results  |-> EmptyDict,
     escalation_result |-> NotCalled,
     audit_entry       |-> NoneValue,
     status            |-> "none"]

PipelineIdle ==
    /\ negotiation = [n \in Negotiations |-> NotStarted]
    /\ audit_entries = <<>>

ComplianceIdle ==
    /\ compliance_args = EmptyDict
    /\ compliance_report = NotCalled
    /\ processing_day = 0

SettlementIdle ==
    /\ settlement_args = EmptyDict
    /\ settlement_offer = NotCalled

PrecedentIdle ==
    /\ precedent_args = EmptyDict
    /\ mock_data = EmptyDict
    /\ recommendation = NotCalled

AuditIdle == audit_result = [call |-> "none"]

\* the supporting services have not been used
ServicesIdle ==
    /\ success_probability = NotCalled
    /\ hume = [pc |-> "idle"]
    /\ policy_lookup = [called |-> FALSE]
    /\ hook_call = [called |-> FALSE]
    /\ conversation = NoneValue
    /\ recovery = NoneValue

\* no tool has been called
ToolsIdle ==
    ComplianceIdle /\ SettlementIdle /\ PrecedentIdle /\ AuditIdle /\ ServicesIdle

-----------------------------------------------------------------------------
(* Inputs of the escalation engine *)

MaxTurns == 2

TurnTexts == {W_Lawyer, W_court, W_legal, W_action}

RECURSIVE SeqsUpTo(_, _)
SeqsUpTo(S, n) ==
    IF n = 0 THEN {<<>>}
    ELSE LET shorter == SeqsUpTo(S, n - 1)
         IN  shorter \cup {Append(q, x) : q \in {r \in shorter : Len(r) = n - 1}, x \in S}

ConversationHistories == SeqsUpTo({[text |-> w] : w \in TurnTexts}, MaxTurns)

OptionalKey(key, values) == {EmptyDict} \cup {key :> v : v \in values}

StressDicts == OptionalKey("stress_level", {70, 71})
AngerDicts == OptionalKey("anger", {81, 91})
DistressDicts == OptionalKey("distress", {80, 81})
FraudDicts == OptionalKey("fraud_risk_score", {70, 71})
Amounts == {10000, 50000, 50001, 100000, 100001}
ComplianceFlagLists == {<<>>, <<"cap_exceeded">>}

\* the emotion scores of a signal; None when the scores are missing altogether
EmotionAnalyses == {a @@ d : a \in AngerDicts, d \in DistressDicts} \cup {NoneValue}

\* One signal, as each entry point receives it: the same amount, scores and text
\* reach evaluate_escalation_need through the EscalationContext and evaluate
\* through emotion_result and claim_data.
Init ==
    \E history \in ConversationHistories, scores \in EmotionAnalyses,
       stress \in StressDicts, fraud \in FraudDicts, amount \in Amounts,
       flags \in ComplianceFlagLists :
        /\ context = [conversation_history |-> history,
                      emotion_analysis     |-> scores,
                      claim_details        |-> ("estimated_amount" :> amount) @@ fraud,
                      settlement_amount    |-> amount,
                      compliance_flags     |-> flags]
        /\ emotion_result =
              ("transcript" :> Join([i \in 1..Len(history) |-> history[i].text]))
                  @@ stress @@ (IF IsNone(scores) THEN EmptyDict ELSE scores)
        /\ claim_data = ("estimated_amount" :> amount) @@ fraud
        /\ escalation_evaluation = NotCalled
        /\ simple_evaluation = NotCalled
        /\ unchecked = {}
        /\ loop = LoopStart
        /\ PipelineIdle
        /\ ToolsIdle

\* result = manager.evaluate_escalation_need(context)
EvaluateEscalationNeed ==
    /\ ~Returned(escalation_evaluation)
    /\ escalation_evaluation' = evaluate_escalation_need(context)
    /\ UNCHANGED <<context, emotion_result, claim_data, simple_evaluation, loopVars,
                   pipelineVars, toolVars>>

\* result = manager.evaluate(emotion_result, claim_data, analysis_result)
Evaluate ==
    /\ ~Returned(simple_evaluation)
    /\ simple_evaluation' = evaluate(emotion_result, claim_data)
    /\ UNCHANGED <<context, emotion_result, claim_data, escalation_evaluation, loopVars,
                   pipelineVars, toolVars>>

Next == EvaluateEscalationNeed \/ Evaluate

Spec == Init /\ [][Next]_vars

-----------------------------------------------------------------------------
(* evaluate_escalation_need with its loop unrolled: one trigger check per step,  *)
(* the five checks taken in any order.  The contexts put each trigger on either  *)
(* side of its condition.                                                        *)

OrderInit ==
    \E history \in ConversationHistories,
       scores \in DistressDicts \cup {NoneValue},
       fraud \in OptionalKey("fraud_risk_score", {71}),
       amount \in {50000, 50001},
       flags \in ComplianceFlagLists :
        /\ context = [conversation_history |-> history,
                      emotion_analysis     |-> scores,
                      claim_details        |-> ("estimated_amount" :> amount) @@ fraud,
                      settlement_amount    |-> amount,
                      compliance_flags     |-> flags]
        /\ emotion_result = EmptyDict
        /\ claim_data = context.claim_details
        /\ escalation_evaluation = NotCalled
        /\ simple_evaluation = NotCalled
        /\ unchecked = SeqToSet(TriggerOrder)
        /\ loop = LoopStart
        /\ PipelineIdle
        /\ ToolsIdle

\* the loop body, for any trigger not yet checked
CheckNextTrigger ==
    /\ ~Returned(escalation_evaluation)
    /\ \E trigger_type \in unchecked :
          /\ loop' = TriggerStep(context, trigger_type, loop)
          /\ unchecked' = unchecked \ {trigger_type}
    /\ UNCHANGED <<escVars, pipelineVars, toolVars>>

\* the return statement after the loop
ReturnEvaluation ==
    /\ ~Returned(escalation_evaluation)
    /\ unchecked = {}
    /\ escalation_evaluation' = EvaluationOf(loop)
    /\ UNCHANGED <<context, emotion_result, claim_data, simple_evaluation, loopVars,
                   pipelineVars, toolVars>>

OrderNext == CheckNextTrigger \/ ReturnEvaluation

OrderSpec == OrderInit /\ [][OrderNext]_vars

-----------------------------------------------------------------------------
(* Properties of the escalation engine *)

NoDuplicates(q) == \A i, j \in 1..Len(q) : q[i] = q[j] => i = j

\* C1: evaluate_escalation_need returns should_escalate = true exactly when the
\* triggered_reasons it returns is non-empty.
C1_EscalateIffReasons ==
    Returned(escalation_evaluation) =>
        (escalation_evaluation.should_escalate
            <=> escalation_evaluation.triggered_reasons # <<>>)

C1_Witness ==
    /\ Returned(escalation_evaluation)
    /\ escalation_evaluation.should_escalate
    /\ escalation_evaluation.triggered_reasons = <<"high_value">>

TriggerWeight(trigger_type) ==
    CASE trigger_type = "legal_threat" -> 5
      [] trigger_type = "extreme_distress" -> 5
      [] trigger_type = "high_value" -> 3
      [] trigger_type = "fraud_suspicion" -> 5
      [] trigger_type = "regulatory_violation" -> 10

RECURSIVE SumOfWeights(_)
SumOfWeights(reasons) ==
    IF reasons = <<>> THEN 0
    ELSE TriggerWeight(Head(reasons)) + SumOfWeights(Tail(reasons))

\* C2: severity_score is the sum of the weights (legal_threat 5, extreme_distress 5,
\* high_value 3, fraud_suspicion 5, regulatory_violation 10) of exactly the triggers
\* listed in triggered_reasons; it is 0 when none fired, and no trigger is listed,
\* or counted, twice.
C2_SeverityIsSumOfWeights ==
    Returned(escalation_evaluation) =>
        /\ escalation_evaluation.severity_score
              = SumOfWeights(escalation_evaluation.triggered_reasons)
        /\ NoDuplicates(escalation_evaluation.triggered_reasons)
        /\ SeqToSet(escalation_evaluation.triggered_reasons) \subseteq SeqToSet(TriggerOrder)
        /\ (escalation_evaluation.triggered_reasons = <<>>
                => escalation_evaluation.severity_score = 0)

C2_Witness ==
    /\ Returned(escalation_evaluation)
    /\ Len(escalation_evaluation.triggered_reasons) = 5
    /\ escalation_evaluation.severity_score = 28

Precedence == <<"regulatory_violation", "legal_threat", "extreme_distress", "fraud_suspicion">>

Category(trigger_type) ==
    CASE trigger_type = "regulatory_violation" -> "compliance_escalation"
      [] trigger_type = "legal_threat" -> "legal_escalation"
      [] trigger_type = "extreme_distress" -> "emotional_support_escalation"
      [] trigger_type = "fraud_suspicion" -> "fraud_investigation_escalation"

\* the category of the highest-precedence trigger among fired, general when none is
TypeByPrecedence(fired) ==
    IF \E i \in 1..Len(Precedence) : Precedence[i] \in fired
    THEN LET first == CHOOSE i \in 1..Len(Precedence) :
                         /\ Precedence[i] \in fired
                         /\ \A j \in 1..(i - 1) : Precedence[j] \notin fired
         IN  Category(Precedence[first])
    ELSE "general_escalation"

Reverse(q) == [i \in 1..Len(q) |-> q[Len(q) + 1 - i]]

\* C3: escalation_type is the category of the highest-precedence trigger present in
\* triggered_reasons (regulatory_violation > legal_threat > extreme_distress >
\* fraud_suspicion > general), whatever else fired and in whatever order the
\* reasons were recorded.
C3_TypeByPrecedence ==
    Returned(escalation_evaluation) =>
        /\ escalation_evaluation.escalation_type
              = TypeByPrecedence(SeqToSet(escalation_evaluation.triggered_reasons))
        /\ _determine_escalation_type(Reverse(escalation_evaluation.triggered_reasons))
              = escalation_evaluation.escalation_type

C3_Witness ==
    /\ Returned(escalation_evaluation)
    /\ escalation_evaluation.triggered_reasons
          = <<"legal_threat", "extreme_distress", "high_value", "fraud_suspicion">>
    /\ escalation_evaluation.escalation_type = "legal_escalation"

SameOutcome(a, b) ==
    /\ a.severity_score = b.severity_score
    /\ SeqToSet(a.triggered_reasons) = SeqToSet(b.triggered_reasons)
    /\ a.should_escalate = b.should_escalate
    /\ a.escalation_type = b.escalation_type

\* C4: whatever the order in which the five triggers are checked, severity_score,
\* the set of triggered_reasons, should_escalate and escalation_type come out as
\* in the order of the trigger table, and no check changes the context.
C4_OrderIndependent ==
    /\ [](Returned(escalation_evaluation) =>
            SameOutcome(escalation_evaluation, evaluate_escalation_need(context)))
    /\ [][context' = context]_vars

\* all five fired, recorded in another order than the table's
C4_Witness ==
    /\ Returned(escalation_evaluation)
    /\ Len(escalation_evaluation.triggered_reasons) = 5
    /\ escalation_evaluation.triggered_reasons[1] = "regulatory_violation"
    /\ escalation_evaluation.triggered_reasons[5] = "legal_threat"

\* the two entry points were given the same amount, emotion scores and text
SameSignal ==
    /\ Get(claim_data, "estimated_amount", 0) = context.settlement_amount
    /\ Get(emotion_result, "transcript", <<>>) = ConversationText(context)
    /\ ~IsNone(context.emotion_analysis)
    /\ Get(emotion_result, "anger", 0) = Get(context.emotion_analysis, "anger", 0)
    /\ Get(emotion_result, "distress", 0) = Get(context.emotion_analysis, "distress", 0)

\* C5: given the same claim amount, emotional signal and text, evaluate and
\* evaluate_escalation_need return the same should_escalate.
C5_EntryPointsAgree ==
    (Returned(escalation_evaluation) /\ Returned(simple_evaluation) /\ SameSignal) =>
        simple_evaluation.should_escalate = escalation_evaluation.should_escalate

\* C6: evaluate returns should_escalate = false exactly when stress_level is not
\* above the stress threshold, anger not above the anger threshold, estimated_amount
\* not above the high-value threshold and no legal keyword is in the transcript; a
\* high-value claim with low stress and no anger or legal keyword escalates through
\* the high-value trigger alone; a transcript containing 'lawyer' escalates for any
\* amount.
C6_SimpleEvaluate ==
    Returned(simple_evaluation) =>
        LET stress == Get(emotion_result, "stress_level", 0)
            anger == Get(emotion_result, "anger", 0)
            amount == Get(claim_data, "estimated_amount", 0)
            transcript == Lower(Get(emotion_result, "transcript", <<>>))
            legal == \/ Contains(transcript, W_lawyer)
                     \/ Contains(transcript, W_attorney)
                     \/ Contains(transcript, W_legal_action)
                     \/ Contains(transcript, W_sue)
        IN  /\ ~simple_evaluation.should_escalate
                <=> (stress <= StressThreshold /\ anger <= AngerThreshold
                        /\ amount <= ClaimAmountThreshold /\ ~legal)
            /\ (amount > ClaimAmountThreshold /\ stress <= StressThreshold
                    /\ anger <= AngerThreshold /\ ~legal)
                => simple_evaluation.escalation_triggers = <<HighValueTrigger>>
            /\ Contains(transcript, W_lawyer) =>
                /\ simple_evaluation.should_escalate
                /\ LegalTrigger \in SeqToSet(simple_evaluation.escalation_triggers)

C6_Witness ==
    /\ Returned(simple_evaluation)
    /\ simple_evaluation.should_escalate
    /\ simple_evaluation.escalation_triggers = <<HighValueTrigger>>
    /\ Get(emotion_result, "stress_level", 0) <= StressThreshold

-----------------------------------------------------------------------------
(* ClaimNegotiationAgent.negotiate_claim_full_pipeline *)

\* the six plan runs of _process_claim_with_discrete_tools, in the order of the code,
\* each with the key of results it fills
DiscreteStages ==
    <<"emotion", "policy", "validation", "precedent", "compliance", "settlement">>

ResultKey(stage) ==
    CASE stage = "emotion" -> "emotion_analysis"
      [] stage = "policy" -> "policy_verification"
      [] stage = "validation" -> "claim_validation"
      [] stage = "precedent" -> "precedent_analysis"
      [] stage = "compliance" -> "compliance_status"
      [] stage = "settlement" -> "settlement_offer"

\* the positions of a negotiation, in the order the code reaches them
PipelineOrder == DiscreteStages \o <<"escalation", "audit", "status", "done">>

StageNo(pc) == CHOOSE i \in 1..Len(PipelineOrder) : PipelineOrder[i] = pc

\* what _extract_plan_output_safely returns when the plan run carries no final output
PlanOutputFallback ==
    [settlement_offer      |-> [amount |-> 0, status |-> "analysis_failed"],
     emotional_analysis    |-> [primary_emotion |-> "neutral", stress_level |-> 30],
     policy_verification   |-> "completed",
     compliance_status     |-> "requires_review",
     escalation_evaluation |-> [should_escalate |-> TRUE, reason |-> "extraction_failed"]]

\* the dicts a plan run can hand back as its final output, per stage
PlanOutputs(stage) ==
    CASE stage = "emotion" ->
            {PlanOutputFallback, [primary_emotion |-> "distress", stress_level |-> 90]}
      [] stage = "compliance" ->
            {[compliant |-> TRUE, violations |-> <<>>],
             [compliant |-> FALSE, none_keys |-> {"violations"}]}
      [] stage = "settlement" -> {[amount |-> 9000]}
      [] OTHER -> {[status |-> "ok"]}

\* the return value of the except branch of _process_claim_with_discrete_tools
DiscreteFailure == [error |-> "stage raised", status |-> "failed"]

\* the claims a negotiation is started with: an ordinary one, a high-value one
\* that lacks policy_number, and one whose estimated_amount is None
ClaimInputs(n) ==
    {[claim_id |-> n, customer_id |-> "customer", policy_number |-> "POL",
      estimated_amount |-> 10000],
     [claim_id |-> n, customer_id |-> "customer", estimated_amount |-> 150000],
     [claim_id |-> n, customer_id |-> "customer", policy_number |-> "POL",
      none_keys |-> {"estimated_amount"}]}

\* agent.negotiate_claim_full_pipeline(audio_data, claim_data) is called
StartNegotiation(n) ==
    /\ negotiation[n].pc = "idle"
    /\ \E cd \in ClaimInputs(n) :
          negotiation' = [negotiation EXCEPT ![n].pc = "emotion", ![n].claim_data = cd]
    /\ UNCHANGED <<escVars, loopVars, audit_entries, toolVars>>

\* the plan run of a stage reads this key of claim_data with claim_data[...]
RequiredClaimKeys(stage) == IF stage = "policy" THEN {"policy_number"} ELSE {}

\* the step with each plan run in a try of its own: a stage that raises leaves
\* no output and the next stage starts all the same
DiscreteStepContinuing(n, stage) ==
    LET frame == negotiation[n]
        i == StageNo(stage)
    IN  /\ frame.pc = stage
        /\ \/ /\ RequiredClaimKeys(stage) \subseteq DOMAIN frame.claim_data
              /\ \E output \in PlanOutputs(stage) :
                    negotiation' =
                        [negotiation EXCEPT
                            ![n].discrete_results = (ResultKey(stage) :> output) @@ @,
                            ![n].pc = PipelineOrder[i + 1]]
           \/ negotiation' = [negotiation EXCEPT ![n].pc = PipelineOrder[i + 1]]
        /\ UNCHANGED <<escVars, loopVars, audit_entries, toolVars>>

\* One step of _process_claim_with_discrete_tools: portia.plan and portia.run_plan
\* for the stage, then results[key] = _extract_plan_output_safely(...).  Anything
\* raised lands in the except branch, which drops results and returns the failure
\* dict; the pipeline then goes on from its escalation evaluation.
DiscreteStep(n, stage) ==
    LET frame == negotiation[n]
        i == StageNo(stage)
    IN  /\ frame.pc = stage
        /\ \/ /\ RequiredClaimKeys(stage) \subseteq DOMAIN frame.claim_data
              /\ \E output \in PlanOutputs(stage) :
                    negotiation' =
                        [negotiation EXCEPT
                            ![n].discrete_results = (ResultKey(stage) :> output) @@ @,
                            ![n].pc = PipelineOrder[i + 1]]
           \/ negotiation' =
                  [negotiation EXCEPT ![n].discrete_results = DiscreteFailure,
                                      ![n].pc = "escalation"]
        /\ UNCHANGED <<escVars, loopVars, audit_entries, toolVars>>

EmotionAnalysisStep(n) == DiscreteStep(n, "emotion")

PolicyLookupStep(n) == DiscreteStep(n, "policy")

ClaimValidationStep(n) == DiscreteStep(n, "validation")

PrecedentAnalysisStep(n) == DiscreteStep(n, "precedent")

ComplianceCheckStep(n) == DiscreteStep(n, "compliance")

SettlementStep(n) == DiscreteStep(n, "settlement")

\* analysis_result as negotiate_claim_full_pipeline builds it from discrete_results
AnalysisResult(discrete_results) ==
    [settlement_offer |-> Get(discrete_results, "settlement_offer", EmptyDict),
     policy_status    |-> Get(discrete_results, "policy_verification", EmptyDict),
     compliance       |-> Get(discrete_results, "compliance_status", EmptyDict),
     plan_run_id      |-> "discrete-execution"]

\* evaluate compares estimated_amount with a number: a None there raises TypeError
EvaluateRaises(er, cd) == HasNone(cd, "estimated_amount")

\* _evaluate_escalation_needs: the result of escalation_manager.evaluate, or the
\* fallback of its except branch
_evaluate_escalation_needs(er, cd) ==
    IF EvaluateRaises(er, cd)
    THEN [should_escalate     |-> FALSE,
          escalation_triggers |-> <<>>,
          urgency_level       |-> "low",
          error               |-> "TypeError"]
    ELSE evaluate(er, cd)

\* escalation_result = self._evaluate_escalation_needs(...), followed by
\* _generate_enhanced_response, whose result no later step reads
EscalationStep(n) ==
    LET frame == negotiation[n]
        er == Get(frame.discrete_results, "emotion_analysis", EmptyDict)
    IN  /\ frame.pc = "escalation"
        /\ negotiation' =
              [negotiation EXCEPT
                  ![n].escalation_result = _evaluate_escalation_needs(er, frame.claim_data),
                  ![n].pc = "audit"]
        /\ UNCHANGED <<escVars, loopVars, audit_entries, toolVars>>

\* AuditEntry(...) as _create_audit_entry fills it; entry_id is a fresh uuid
NewAuditEntry(entry_id, cd, er, analysis_result, escalation_result) ==
    [entry_id         |-> entry_id,
     action_type      |-> "complete_claim_negotiation",
     tool_name        |-> "ClaimNegotiationAgent",
     arguments        |-> [claim_id |-> Get(cd, "claim_id", NoneValue)],
     user_id          |-> Get(cd, "customer_id", NoneValue),
     plan_run_id      |-> Get(analysis_result, "plan_run_id", "unified-execution"),
     step_index       |-> 0,
     compliance_flags |-> Get(analysis_result.compliance, "violations", <<>>),
     risk_indicators  |-> Get(escalation_result, "escalation_triggers", <<>>)]

\* compliance_flags is a List[str] field: None does not validate
AuditEntryInvalid(analysis_result) == HasNone(analysis_result.compliance, "violations")

\* AuditTrailManager._load_compliance_rules
compliance_rules ==
    [high_value_threshold        |-> 50000,
     approval_required_threshold |-> 25000,
     documentation_requirements  |->
         [high_value     |-> <<"supervisor_approval", "compliance_review">>,
          complex_claims |-> <<"detailed_justification", "legal_review">>]]

\* a test that looks only at whether anything was provided
MissingUnlessAnyProvided(required, provided) ==
    IF provided = <<>> THEN required ELSE <<>>

\* [req for req in required if req not in provided]
Missing(required, provided) ==
    SelectSeq(required, LAMBDA req : req \notin SeqToSet(provided))

\* f"Missing required approvals: {missing_approvals}"
MissingApprovalsText(missing) ==
    CASE missing = <<"supervisor_approval", "compliance_review">> ->
             "Missing required approvals: ['supervisor_approval', 'compliance_review']"
      [] missing = <<"supervisor_approval">> ->
             "Missing required approvals: ['supervisor_approval']"
      [] missing = <<"compliance_review">> ->
             "Missing required approvals: ['compliance_review']"

\* f"Missing required documentation for complex claim: {missing_docs}"
MissingDocsText(missing) ==
    CASE missing = <<"detailed_justification", "legal_review">> ->
             "Missing required documentation for complex claim: ['detailed_justification', 'legal_review']"
      [] missing = <<"detailed_justification">> ->
             "Missing required documentation for complex claim: ['detailed_justification']"
      [] missing = <<"legal_review">> ->
             "Missing required documentation for complex claim: ['legal_review']"

\* AuditTrailManager.check_compliance
check_compliance(entry) ==
    LET missing_approvals ==
            Missing(compliance_rules.documentation_requirements.high_value,
                    Get(entry.arguments, "approvals", <<>>))
        missing_docs ==
            Missing(compliance_rules.documentation_requirements.complex_claims,
                    Get(entry.arguments, "documentation", <<>>))
    IN  (IF entry.action_type = "settlement_offer"
            /\ Get(entry.arguments, "amount", 0)
                   > compliance_rules.approval_required_threshold
            /\ missing_approvals # <<>>
         THEN <<MissingApprovalsText(missing_approvals)>> ELSE <<>>)
        \o (IF entry.action_type = "claim_validation"
               /\ Get(entry.arguments, "complexity", "none") = "high"
               /\ missing_docs # <<>>
            THEN <<MissingDocsText(missing_docs)>> ELSE <<>>)
        \o entry.compliance_flags

\* a check whose violations list is the entry's own compliance_flags list
EntryAfterCheckSharingFlags(entry) ==
    [entry EXCEPT !.compliance_flags = check_compliance(entry)]

\* the entry once check_compliance(entry) has returned: violations is a list of
\* its own, which extend() fills with copies of the flags
EntryAfterCheck(entry) == entry

\* a log_action that refuses an entry check_compliance finds non-compliant
LogActionUnlessNonCompliant(entries, entry) ==
    IF check_compliance(entry) # <<>> THEN entries ELSE Append(entries, entry)

\* AuditTrailManager.log_action
log_action(entries, entry) == Append(entries, entry)

\* audit_entry = self._create_audit_entry(...): the entry is built and logged, or
\* the except branch returns None
AuditStep(n) ==
    LET frame == negotiation[n]
        er == Get(frame.discrete_results, "emotion_analysis", EmptyDict)
        analysis_result == AnalysisResult(frame.discrete_results)
        entry == NewAuditEntry(Len(audit_entries) + 1, frame.claim_data, er,
                               analysis_result, frame.escalation_result)
    IN  /\ frame.pc = "audit"
        /\ IF AuditEntryInvalid(analysis_result)
           THEN /\ negotiation' = [negotiation EXCEPT ![n].audit_entry = NoneValue,
                                                      ![n].pc = "status"]
                /\ UNCHANGED audit_entries
           ELSE /\ audit_entries' = log_action(audit_entries, entry)
                /\ negotiation' = [negotiation EXCEPT ![n].audit_entry = entry,
                                                      ![n].pc = "status"]
        /\ UNCHANGED <<escVars, loopVars, toolVars>>

\* _determine_status(plan_run, final_output), state_name being plan_run.state.name
_determine_status(state_name, final_output) ==
    IF Get(Get(final_output, "escalation_evaluation", EmptyDict), "should_escalate", FALSE)
    THEN "requires_escalation"
    ELSE IF state_name = "COMPLETE" THEN "negotiation_complete"
    ELSE IF state_name \in {"FAILED", "ERROR"} THEN "error"
    ELSE "in_progress"

\* final_result["status"]: the plan run handed to _determine_status is the MockResult,
\* whose state is always COMPLETE.  None of the steps above lets an exception reach
\* the except branch of negotiate_claim_full_pipeline, so its "error" status is
\* never returned.
StatusStep(n) ==
    LET frame == negotiation[n]
        final_output == [escalation_evaluation |-> frame.escalation_result]
    IN  /\ frame.pc = "status"
        /\ negotiation' =
              [negotiation EXCEPT ![n].status = _determine_status("COMPLETE", final_output),
                                  ![n].pc = "done"]
        /\ UNCHANGED <<escVars, loopVars, audit_entries, toolVars>>

PipelineInit ==
    /\ context = EmptyDict
    /\ emotion_result = EmptyDict
    /\ claim_data = EmptyDict
    /\ escalation_evaluation = NotCalled
    /\ simple_evaluation = NotCalled
    /\ unchecked = {}
    /\ loop = LoopStart
    /\ PipelineIdle
    /\ ToolsIdle

PipelineNext ==
    \E n \in Negotiations :
        \/ StartNegotiation(n)
        \/ EmotionAnalysisStep(n)
        \/ PolicyLookupStep(n)
        \/ ClaimValidationStep(n)
        \/ PrecedentAnalysisStep(n)
        \/ ComplianceCheckStep(n)
        \/ SettlementStep(n)
        \/ EscalationStep(n)
        \/ AuditStep(n)
        \/ StatusStep(n)

PipelineSpec == PipelineInit /\ [][PipelineNext]_vars

-----------------------------------------------------------------------------
(* AuditTrailManager queries *)

\* get_full_audit_trail(plan_run_id): a falsy plan_run_id selects every entry
get_full_audit_trail(entries, plan_run_id) ==
    IF plan_run_id = "" THEN entries
    ELSE SelectSeq(entries, LAMBDA entry : entry.plan_run_id = plan_run_id)

-----------------------------------------------------------------------------
(* Properties of the negotiation pipeline *)

\* a stage of this negotiation raised and the failure was caught
StageFailed(frame) ==
    \/ "error" \in DOMAIN frame.discrete_results
    \/ "error" \in DOMAIN frame.escalation_result
    \/ (frame.pc \in {"status", "done"} /\ IsNone(frame.audit_entry))

\* C7: a run ends in exactly one status: requires_escalation if the escalation
\* evaluation returned should_escalate = true; error if any stage raised a failure;
\* negotiation_complete only when no stage failed and should_escalate is false.
C7_TerminalStatus ==
    \A n \in Negotiations :
        LET frame == negotiation[n]
            escalate == frame.escalation_result.should_escalate
        IN  frame.pc = "done" =>
                /\ frame.status \in {"requires_escalation", "error", "negotiation_complete"}
                /\ escalate => frame.status = "requires_escalation"
                /\ (~escalate /\ StageFailed(frame)) => frame.status = "error"
                /\ frame.status = "negotiation_complete"
                      => (~escalate /\ ~StageFailed(frame))

\* the output a position leaves in the frame once it is passed
OutputProduced(pc, frame, entries) ==
    CASE pc \in SeqToSet(DiscreteStages) -> ResultKey(pc) \in DOMAIN frame.discrete_results
      [] pc = "escalation" -> Returned(frame.escalation_result)
      [] pc = "audit" ->
            \/ IsNone(frame.audit_entry)
            \/ \E i \in 1..Len(entries) : entries[i] = frame.audit_entry
      [] pc = "status" -> frame.status # "none"
      [] OTHER -> TRUE

\* every stage before pc has left its output, or a discrete stage failed
EarlierOutputsPresent(frame, entries) ==
    frame.pc # "idle" =>
        \A i \in 1..(StageNo(frame.pc) - 1) :
            \/ OutputProduced(PipelineOrder[i], frame, entries)
            \/ (i <= Len(DiscreteStages) /\ "error" \in DOMAIN frame.discrete_results)

\* a change of position goes to the next stage, with the output of the stage left
\* behind in place, or leaves a discrete stage that failed for the escalation stage
InOrderStep(before, after, entries) ==
    before.pc # after.pc =>
        IF before.pc = "idle" THEN after.pc = "emotion"
        ELSE \/ /\ StageNo(after.pc) = StageNo(before.pc) + 1
                /\ OutputProduced(before.pc, after, entries)
             \/ /\ before.pc \in SeqToSet(DiscreteStages)
                /\ after.pc = "escalation"
                /\ "error" \in DOMAIN after.discrete_results

\* C8: the stages are entered in the order emotion analysis, policy verification,
\* claim validation, precedent analysis, compliance check, settlement generation,
\* escalation evaluation, audit, terminal status; a stage starts only when the
\* stage before it has produced its output, and a stage is skipped only when an
\* earlier stage failed.
C8_StageOrder ==
    /\ [](\A n \in Negotiations : EarlierOutputsPresent(negotiation[n], audit_entries))
    /\ [][\A n \in Negotiations :
            InOrderStep(negotiation[n], negotiation'[n], audit_entries')]_vars

C8_Witness ==
    \E n \in Negotiations :
        /\ negotiation[n].pc = "done"
        /\ \A i \in 1..Len(DiscreteStages) :
              ResultKey(DiscreteStages[i]) \in DOMAIN negotiation[n].discrete_results
        /\ ~IsNone(negotiation[n].audit_entry)

\* the audit entries a negotiation wrote: its claim_id is in their arguments
EntriesOf(n) == SelectSeq(audit_entries, LAMBDA entry : entry.arguments.claim_id = n)

\* the stages of a negotiation that have completed, by success or caught failure
StagesCompleted(frame) ==
    IF frame.pc = "idle" THEN 0
    ELSE IF "error" \in DOMAIN frame.discrete_results
         THEN 1 + (StageNo(frame.pc) - StageNo("escalation"))
         ELSE StageNo(frame.pc) - 1

\* C9: after every stage completes, by success or by a caught failure, an audit
\* entry has been appended; a run that ends with status error has left an entry
\* that names the stage that failed.
C9_AuditEntryPerStage ==
    \A n \in Negotiations :
        /\ Len(EntriesOf(n)) >= StagesCompleted(negotiation[n])
        /\ negotiation[n].status = "error" =>
              \E i \in 1..Len(EntriesOf(n)) : "failed_stage" \in DOMAIN EntriesOf(n)[i]

\* C10: entries written by different negotiations carry different plan_run_id
\* values, so the trail selected by the plan_run_id of one negotiation holds no
\* entry of another.
C10_NegotiationsIsolated ==
    /\ \A i, j \in 1..Len(audit_entries) :
          audit_entries[i].arguments.claim_id # audit_entries[j].arguments.claim_id
              => audit_entries[i].plan_run_id # audit_entries[j].plan_run_id
    /\ \A n \in Negotiations :
          ~IsNone(negotiation[n].audit_entry) =>
              LET trail == get_full_audit_trail(audit_entries,
                                                negotiation[n].audit_entry.plan_run_id)
              IN  \A i \in 1..Len(trail) : trail[i].arguments.claim_id = n

-----------------------------------------------------------------------------
(* ComplianceCheckTool.run (src/src/tools/compliance_tools.py) *)

SeniorManagerThreshold == 100000
ExecutiveThreshold == 250000

\* the table local to run; ComplianceConfig.STATE_REGULATIONS is not read by it
state_rules ==
    [CA |-> [max_auto_settlement |-> 50000,
             required_disclosure |-> "california_consumer_privacy_notice"],
     NY |-> [max_auto_settlement |-> 45000,
             required_disclosure |-> "new_york_insurance_disclosure"]]

\* violations, warnings, required_approvals, additional_docs, risk_level at entry
ReportStart ==
    [violations          |-> <<>>,
     warnings            |-> <<>>,
     required_approvals  |-> <<>>,
     additional_docs     |-> <<>>,
     risk_level          |-> "low"]

\* if settlement_amount > 100000
HighValueRule(r, settlement_amount) ==
    IF settlement_amount > SeniorManagerThreshold
    THEN [r EXCEPT !.required_approvals = @ \o <<"senior_manager", "legal_department">>,
                   !.additional_docs = Append(@, "detailed_justification_report"),
                   !.risk_level = "high"]
    ELSE r

\* a rule that replaces the approvals collected so far
ExecutiveRuleReplacingApprovals(r, settlement_amount) ==
    IF settlement_amount > ExecutiveThreshold
    THEN [r EXCEPT !.required_approvals = <<"executive_approval">>,
                   !.additional_docs = Append(@, "external_legal_review"),
                   !.risk_level = "critical"]
    ELSE r

\* if settlement_amount > 250000
ExecutiveRule(r, settlement_amount) ==
    IF settlement_amount > ExecutiveThreshold
    THEN [r EXCEPT !.required_approvals = Append(@, "executive_approval"),
                   !.additional_docs = Append(@, "external_legal_review"),
                   !.risk_level = "critical"]
    ELSE r

\* f"Settlement exceeds {state} maximum for auto claims": the text and the values
\* formatted into it
AutoCapViolation(state) ==
    [message |-> "Settlement exceeds {state} maximum for auto claims",
     state   |-> state]

\* if state in state_rules
StateRule(r, settlement_amount, claim_type, state) ==
    IF state \in DOMAIN state_rules
    THEN LET state_rule == state_rules[state]
             checked ==
                 IF claim_type = "auto"
                    /\ settlement_amount > state_rule.max_auto_settlement
                 THEN [r EXCEPT !.violations = Append(@, AutoCapViolation(state))]
                 ELSE r
         IN  [checked EXCEPT !.additional_docs =
                                 Append(@, state_rule.required_disclosure)]
    ELSE r

WeekendWarning == "Settlement processed on weekend - verify business day requirements"

\* a weekend rule that records a violation
WeekendRuleAsViolation(r, weekday) ==
    IF weekday >= 5
    THEN [r EXCEPT !.violations =
                       Append(@, [message |-> WeekendWarning, state |-> "none"])]
    ELSE r

\* if datetime.now().weekday() >= 5
WeekendRule(r, weekday) ==
    IF weekday >= 5 THEN [r EXCEPT !.warnings = Append(@, WeekendWarning)] ELSE r

\* ComplianceCheckTool.run; weekday is what datetime.now().weekday() returns
ComplianceCheckTool_run(settlement_amount, claim_type, state, weekday) ==
    LET r == WeekendRule(
                 StateRule(
                     ExecutiveRule(HighValueRule(ReportStart, settlement_amount),
                                   settlement_amount),
                     settlement_amount, claim_type, state),
                 weekday)
    IN  [compliant                |-> Len(r.violations) = 0,
         violations               |-> r.violations,
         warnings                 |-> r.warnings,
         required_approvals       |-> r.required_approvals,
         additional_documentation |-> r.additional_docs,
         regulatory_notes         |->
             [message |-> "Compliance check completed for {state} jurisdiction",
              state   |-> state],
         risk_level               |-> r.risk_level]

ReportReturned(report) == "compliant" \in DOMAIN report

\* the escalation entry points are not called
EscalationIdle ==
    /\ context = EmptyDict
    /\ emotion_result = EmptyDict
    /\ claim_data = EmptyDict
    /\ escalation_evaluation = NotCalled
    /\ simple_evaluation = NotCalled
    /\ unchecked = {}
    /\ loop = LoopStart

ComplianceInit ==
    /\ EscalationIdle
    /\ PipelineIdle
    /\ SettlementIdle
    /\ PrecedentIdle
    /\ AuditIdle
    /\ ServicesIdle
    \* amounts on both sides of each cap and each approval threshold; CA and NY are
    \* in state_rules, TX is in STATE_REGULATIONS only, WA is in neither
    /\ \E settlement_amount \in {45000, 45001, 50000, 50001, 60000,
                                  100000, 100001, 250000, 250001},
          claim_type \in {"auto", "auto_collision", "home"},
          state \in {"CA", "NY", "TX", "WA"} :
          compliance_args = [settlement_amount |-> settlement_amount,
                             claim_type        |-> claim_type,
                             state             |-> state]
    /\ compliance_report = NotCalled
    /\ processing_day = 0

\* report = tool.run(ctx, settlement_amount, claim_type, state), on any day
ComplianceCheck ==
    /\ \E weekday \in 0..6 :
          /\ processing_day' = weekday
          /\ compliance_report' =
                ComplianceCheckTool_run(compliance_args.settlement_amount,
                                        compliance_args.claim_type,
                                        compliance_args.state, weekday)
    /\ UNCHANGED <<serviceVars, escVars, loopVars, pipelineVars, compliance_args, settlementVars,
                   precedentVars, audit_result>>

ComplianceSpec == ComplianceInit /\ [][ComplianceCheck]_vars

-----------------------------------------------------------------------------
(* Properties of the compliance check *)

RiskRank(risk_level) ==
    CASE risk_level = "low"      -> 0
      [] risk_level = "medium"   -> 1
      [] risk_level = "high"     -> 2
      [] risk_level = "critical" -> 3

\* C11: a settlement_amount above the executive threshold gets risk_level
\* critical and required_approvals holding executive_approval, senior_manager and
\* legal_department, for every claim type and jurisdiction; whatever the
\* senior-manager rule raised the risk level to, the report's level is not below it.
C11_ExecutiveTier ==
    ReportReturned(compliance_report) =>
        /\ compliance_args.settlement_amount > ExecutiveThreshold =>
              /\ compliance_report.risk_level = "critical"
              /\ {"executive_approval", "senior_manager", "legal_department"}
                     \subseteq SeqToSet(compliance_report.required_approvals)
        /\ RiskRank(compliance_report.risk_level) >=
              RiskRank(HighValueRule(ReportStart,
                                     compliance_args.settlement_amount).risk_level)

C11_Witness ==
    /\ ReportReturned(compliance_report)
    /\ compliance_args.settlement_amount > ExecutiveThreshold
    /\ compliance_report.risk_level = "critical"
    /\ compliance_args.state = "WA"
    /\ compliance_args.claim_type = "home"

AutoClaimFamily == {"auto", "auto_collision"}

\* C12: for an auto-family claim type and a jurisdiction with a cap, an amount
\* above the cap gives compliant = false with exactly one violation, the one
\* naming the jurisdiction and its maximum for auto claims, and an amount at or
\* below the cap gives no violation.
C12_AutoCapViolation ==
    (/\ ReportReturned(compliance_report)
     /\ compliance_args.claim_type \in AutoClaimFamily
     /\ compliance_args.state \in DOMAIN state_rules) =>
        LET cap == state_rules[compliance_args.state].max_auto_settlement
            violations == compliance_report.violations
        IN  IF compliance_args.settlement_amount > cap
            THEN /\ ~compliance_report.compliant
                 /\ Len(violations) = 1
                 /\ violations[1] = AutoCapViolation(compliance_args.state)
            ELSE violations = <<>>

\* C13: a jurisdiction without an entry in the jurisdiction table gets a
\* configuration error naming the missing key, never a ComplianceReport.
C13_MissingJurisdictionFails ==
    compliance_args.state \notin DOMAIN state_rules =>
        (compliance_report = NotCalled
         \/ ("configuration_error" \in DOMAIN compliance_report
             /\ compliance_report.configuration_error = compliance_args.state))

SameDecision(r1, r2) ==
    /\ r1.compliant = r2.compliant
    /\ r1.violations = r2.violations
    /\ r1.required_approvals = r2.required_approvals
    /\ r1.risk_level = r2.risk_level

\* C14: two evaluations of the same arguments return the same compliant flag,
\* violations, required_approvals and risk_level whatever the processing day; the
\* weekend adds one warning and nothing else, and compliant is true exactly when
\* violations is empty.
C14_DeterministicDecision ==
    /\ [][(ReportReturned(compliance_report) /\ ReportReturned(compliance_report'))
             => SameDecision(compliance_report, compliance_report')]_vars
    /\ [](ReportReturned(compliance_report) =>
             /\ compliance_report.compliant = (compliance_report.violations = <<>>)
             /\ compliance_report.warnings =
                   IF processing_day >= 5 THEN <<WeekendWarning>> ELSE <<>>
             /\ SameDecision(compliance_report,
                             ComplianceCheckTool_run(compliance_args.settlement_amount,
                                                     compliance_args.claim_type,
                                                     compliance_args.state, 0)))

C14_Witness ==
    /\ ReportReturned(compliance_report)
    /\ processing_day >= 5
    /\ compliance_report.warnings # <<>>
    /\ ~compliance_report.compliant

-----------------------------------------------------------------------------
(* SettlementOfferTool (src/src/tools/settlement_tools.py).  Amounts are whole   *)
(* currency units; factors and the stress level are in hundredths, so the        *)
(* settlement_amount of a result, base * factor, is in hundredths of a unit.     *)

HIGH_STRESS_THRESHOLD == 70
VERY_HIGH_STRESS_THRESHOLD == 80
EMPATHY_ADJUSTMENT_FACTOR == 105
HIGH_ANGER_ADJUSTMENT_FACTOR == 107
MIN_ADJUSTMENT_FACTOR == 90
MAX_ADJUSTMENT_FACTOR == 110
SPECIAL_APPROVAL_PERCENTAGE == 80

Min2(a, b) == IF a <= b THEN a ELSE b

Max2(a, b) == IF a >= b THEN a ELSE b

\* an adjustment that discounts the offer of a customer who shows no emotion
EmotionalAdjustmentDiscount(emotional_context, stress_level) ==
    IF emotional_context = "neutral" THEN MIN_ADJUSTMENT_FACTOR
    ELSE EMPATHY_ADJUSTMENT_FACTOR

_calculate_emotional_adjustment(emotional_context, stress_level) ==
    LET adjustment ==
            IF emotional_context \in {"anger", "frustration", "sadness"}
               /\ stress_level > HIGH_STRESS_THRESHOLD
            THEN EMPATHY_ADJUSTMENT_FACTOR
            ELSE IF emotional_context \in {"anger", "frustration"}
                    /\ stress_level > VERY_HIGH_STRESS_THRESHOLD
                 THEN HIGH_ANGER_ADJUSTMENT_FACTOR
                 ELSE 100
    IN  Max2(MIN_ADJUSTMENT_FACTOR, Min2(MAX_ADJUSTMENT_FACTOR, adjustment))

\* the confidence as the fraction num / den
_calculate_confidence(claim_amount, policy_coverage, damage_assessment) ==
    LET max_val == Max2(claim_amount, Max2(policy_coverage, damage_assessment))
        min_val == Min2(claim_amount, Min2(policy_coverage, damage_assessment))
    IN  IF max_val = 0 THEN [num |-> 50, den |-> 100]
        ELSE IF min_val * 100 < 10 * max_val THEN [num |-> 10, den |-> 100]
        ELSE IF min_val * 100 > 95 * max_val THEN [num |-> 95, den |-> 100]
        ELSE [num |-> min_val, den |-> max_val]

\* settlement_amount is in hundredths, policy_coverage in units
_requires_special_approval(settlement_amount, policy_coverage) ==
    settlement_amount > policy_coverage * SPECIAL_APPROVAL_PERCENTAGE

_generate_reasoning(base_settlement, final_settlement, adjustment_factor, confidence) ==
    LET reasoning_parts ==
            (IF base_settlement * 100 # final_settlement
             THEN <<"Adjusted from base amount">> ELSE <<>>)
            \o (IF adjustment_factor # 100
                THEN <<"Emotional adjustment applied">> ELSE <<>>)
            \o (IF confidence.num * 100 < 70 * confidence.den
                THEN <<"Lower confidence due to data variance">> ELSE <<>>)
    IN  IF reasoning_parts = <<>> THEN <<"Standard settlement calculation applied">>
        ELSE reasoning_parts

\* f"{stress_level:.2f}" and the > comparison raise TypeError on None
AdjustmentRaises(args) == HasNone(args, "stress_level")

SettlementOfferTool_run(args) ==
    LET base_settlement ==
            Min2(args.claim_amount, Min2(args.policy_coverage, args.damage_assessment))
    IN  IF AdjustmentRaises(args)
        THEN [settlement_amount      |-> base_settlement * 100,
              offer_reasoning        |-> <<"Fallback calculation due to processing error">>,
              confidence_score       |-> [num |-> 30, den |-> 100],
              recommended_next_steps |-> "Review manually due to error",
              requires_approval      |-> TRUE]
        ELSE LET adjustment_factor ==
                     _calculate_emotional_adjustment(args.emotional_context,
                                                     args.stress_level)
                 adjusted_settlement == base_settlement * adjustment_factor
                 final_settlement ==
                     Min2(adjusted_settlement, args.policy_coverage * 100)
                 confidence ==
                     _calculate_confidence(args.claim_amount, args.policy_coverage,
                                           args.damage_assessment)
             IN  [settlement_amount      |-> final_settlement,
                  offer_reasoning        |->
                      _generate_reasoning(base_settlement, final_settlement,
                                          adjustment_factor, confidence),
                  confidence_score       |-> confidence,
                  recommended_next_steps |-> "Send offer to customer with explanation",
                  requires_approval      |->
                      _requires_special_approval(final_settlement,
                                                 args.policy_coverage)]

OfferReturned(offer) == "settlement_amount" \in DOMAIN offer

SettlementInit ==
    /\ EscalationIdle
    /\ PipelineIdle
    /\ ComplianceIdle
    /\ PrecedentIdle
    /\ AuditIdle
    /\ ServicesIdle
    \* stress levels on both sides of the two thresholds, and None
    /\ \E claim_amount \in {0, 1000, 20000, 20001},
          policy_coverage \in {0, 1000, 20000, 20001},
          damage_assessment \in {0, 1000, 20000, 20001},
          emotional_context \in {"neutral", "anger", "frustration", "sadness", "anxiety"},
          stress_level \in {50, 70, 71, 80, 81, 100}, stress_is_none \in BOOLEAN :
          settlement_args =
              [claim_amount      |-> claim_amount,
               policy_coverage   |-> policy_coverage,
               damage_assessment |-> damage_assessment,
               emotional_context |-> emotional_context,
               stress_level      |-> IF stress_is_none THEN 0 ELSE stress_level,
               none_keys         |-> IF stress_is_none THEN {"stress_level"} ELSE {}]
    /\ settlement_offer = NotCalled

\* offer = tool.run(ctx, claim_amount, policy_coverage, damage_assessment, ...)
GenerateSettlementOffer ==
    /\ ~OfferReturned(settlement_offer)
    /\ settlement_offer' = SettlementOfferTool_run(settlement_args)
    /\ UNCHANGED <<serviceVars, escVars, loopVars, pipelineVars, complianceVars, settlement_args,
                   precedentVars, audit_result>>

SettlementSpec == SettlementInit /\ [][GenerateSettlementOffer]_vars

-----------------------------------------------------------------------------
(* Properties of the settlement offer *)

BaseAmount(args) ==
    Min2(args.claim_amount, Min2(args.policy_coverage, args.damage_assessment))

\* C15: for non-negative amounts, every emotional context and stress level, the
\* settlement amount returned is at least min(claim_amount, policy_coverage,
\* damage_assessment) and at most policy_coverage, on the normal path and on the
\* fallback path.
C15_OfferWithinBounds ==
    OfferReturned(settlement_offer) =>
        /\ settlement_offer.settlement_amount >= BaseAmount(settlement_args) * 100
        /\ settlement_offer.settlement_amount <= settlement_args.policy_coverage * 100

\* the normal path with an adjustment applied, and the fallback path
C15_Witness ==
    /\ OfferReturned(settlement_offer)
    /\ BaseAmount(settlement_args) > 0
    /\ \/ /\ ~AdjustmentRaises(settlement_args)
          /\ settlement_offer.settlement_amount > BaseAmount(settlement_args) * 100
          /\ settlement_offer.settlement_amount
                 < settlement_args.policy_coverage * 100
       \/ /\ AdjustmentRaises(settlement_args)
          /\ settlement_offer.recommended_next_steps = "Review manually due to error"

\* C16: for an offer computed on the normal path, anger with stress above the
\* very-high threshold gets the high-anger factor, which is greater than the
\* empathy factor that a negative emotion with stress above the high threshold
\* only gets, and the factor lies in [MIN_ADJUSTMENT_FACTOR, MAX_ADJUSTMENT_FACTOR].
C16_GradedAdjustment ==
    (OfferReturned(settlement_offer) /\ ~AdjustmentRaises(settlement_args)) =>
        LET emotional_context == settlement_args.emotional_context
            stress_level == settlement_args.stress_level
            factor == _calculate_emotional_adjustment(emotional_context, stress_level)
        IN  /\ HIGH_ANGER_ADJUSTMENT_FACTOR > EMPATHY_ADJUSTMENT_FACTOR
            /\ (emotional_context = "anger"
                /\ stress_level > VERY_HIGH_STRESS_THRESHOLD)
                   => factor = HIGH_ANGER_ADJUSTMENT_FACTOR
            /\ (emotional_context \in {"anger", "frustration", "sadness"}
                /\ stress_level > HIGH_STRESS_THRESHOLD
                /\ stress_level <= VERY_HIGH_STRESS_THRESHOLD)
                   => factor = EMPATHY_ADJUSTMENT_FACTOR
            /\ factor >= MIN_ADJUSTMENT_FACTOR
            /\ factor <= MAX_ADJUSTMENT_FACTOR

-----------------------------------------------------------------------------
(* PrecedentAnalysisTool (src/src/tools/precedent_tools.py).  An amount is the   *)
(* fraction num / den in lowest terms; percentages, confidences and the stress   *)
(* level are in hundredths, satisfaction scores in tenths.                       *)

MaxCases == 2

RECURSIVE GCD(_, _)
GCD(a, b) == IF b = 0 THEN a ELSE GCD(b, a % b)

Frac(num, den) ==
    LET g == GCD(num, den) IN [num |-> num \div g, den |-> den \div g]

\* amount * (hundredths / 100)
Scale(amount, hundredths) == Frac(amount.num * hundredths, amount.den * 100)

FracLeq(a, b) == a.num * b.den <= b.num * a.den

Abs(x) == IF x < 0 THEN -x ELSE x

RECURSIVE SumField(_, _)
SumField(cases, field) ==
    IF cases = <<>> THEN 0 ELSE Head(cases)[field] + SumField(Tail(cases), field)

\* case_data["claim_type"] raises KeyError, the division ZeroDivisionError
CaseRaises(case_data, claim_type, claim_amount) ==
    \/ "claim_type" \notin DOMAIN case_data
    \/ case_data.claim_type = claim_type /\ claim_amount = 0

\* same claim type, original claim within 50% of the claim amount
CaseMatches(case_data, claim_type, claim_amount) ==
    /\ case_data.claim_type = claim_type
    /\ 2 * Abs(case_data.original_claim - claim_amount) < claim_amount

\* a loader that returns what it had matched when a case raises
LoadPrecedentsKeepingPartial(data, claim_type, claim_amount) ==
    IF ~data.readable THEN <<>>
    ELSE SelectSeq(Get(data, "precedent_cases", <<>>),
                   LAMBDA case_data :
                       /\ ~CaseRaises(case_data, claim_type, claim_amount)
                       /\ CaseMatches(case_data, claim_type, claim_amount))

_load_relevant_precedents(data, claim_type, claim_amount) ==
    IF ~data.readable THEN <<>>
    ELSE LET cases == Get(data, "precedent_cases", <<>>)
         IN  IF \E i \in 1..Len(cases) : CaseRaises(cases[i], claim_type, claim_amount)
             THEN <<>>
             ELSE LET precedents ==
                          SelectSeq(cases, LAMBDA case_data :
                                      CaseMatches(case_data, claim_type, claim_amount))
                  IN  SubSeq(precedents, 1, Min2(Len(precedents), 10))

_identify_risk_factors(precedents, claim_amount) ==
    (IF claim_amount > 50000 THEN <<"high_value_claim">> ELSE <<>>)
    \o (IF Len(precedents) < 3 THEN <<"limited_precedent_data">> ELSE <<>>)
    \o (IF precedents # <<>>
           /\ SumField(precedents, "customer_satisfaction_score") < 35 * Len(precedents)
        THEN <<"historically_low_satisfaction">> ELSE <<>>)

\* `circ in option["type"]`, for the circumstances of the modelled cases
SubstringOfType(circ, type) ==
    \/ circ = type
    \/ circ = "track" /\ type = "fast_track"

\* the four options before flags and confidence scores
BaseOptions(settlement_amount) ==
    << [type                 |-> "immediate_partial",
        description          |-> "Immediate partial payment with balance paid later",
        amount               |-> Scale(settlement_amount, 70),
        immediate_payment    |-> Scale(settlement_amount, 40),
        balance_payment_days |-> 15,
        benefit              |-> "Provides immediate financial relief",
        best_for             |-> <<"high_emotional_distress", "urgent_financial_need">>],
       [type                  |-> "structured",
        description           |-> "Structured monthly payments over time",
        amount                |-> Scale(settlement_amount, 95),
        monthly_payment       |-> Frac(Scale(settlement_amount, 95).num,
                                       Scale(settlement_amount, 95).den * 12),
        payment_period_months |-> 12,
        benefit               |-> "Consistent income stream",
        best_for              |-> <<"long_term_financial_planning", "retirees">>],
       [type                |-> "enhanced_service",
        description         |-> "Standard settlement plus additional services",
        amount              |-> Scale(settlement_amount, 90),
        additional_services |-> <<"rental_car_voucher", "home_repair_assessment",
                                  "legal_consultation_voucher">>,
        benefit             |-> "Additional support beyond monetary settlement",
        best_for            |-> <<"service_oriented_customers", "complex_situations">>],
       [type                 |-> "fast_track",
        description          |-> "Premium processing with expedited resolution",
        amount               |-> Scale(settlement_amount, 85),
        processing_time_days |-> 5,
        benefit              |-> "Quick resolution and payment",
        best_for             |-> <<"high_stress", "time_sensitive_needs">>] >>

\* option["recommended"] = True for the options of the given types
Recommend(options, types) ==
    [i \in DOMAIN options |->
        IF options[i].type \in types THEN options[i] @@ ("recommended" :> TRUE)
        ELSE options[i]]

\* round(base_confidence, 2) in hundredths
OptionConfidence(option, precedents) ==
    LET similar_precedents ==
            SelectSeq(precedents, LAMBDA p :
                \E k \in 1..Len(p.special_circumstances) :
                    SubstringOfType(p.special_circumstances[k], option.type))
        m == Len(similar_precedents)
    IN  IF m = 0 THEN 70
        ELSE (4 * SumField(similar_precedents, "customer_satisfaction_score") + m)
                 \div (2 * m)

\* emotional_context is NoneValue and precedents is <<>> when not supplied: `if
\* precedents` takes None and [] alike
_generate_creative_settlement_options(settlement_amount, case_complexity, emotional_context, precedents) ==
    LET options == BaseOptions(settlement_amount)
        supplied == ~IsNone(emotional_context) /\ DOMAIN emotional_context # {}
        primary_emotion == Get(emotional_context, "primary_emotion", "neutral")
        stress_level == Get(emotional_context, "stress_level", 50)
        flagged ==
            IF ~supplied THEN options
            ELSE IF primary_emotion = "sadness" \/ stress_level > 70
                 THEN Recommend(options, {"immediate_partial", "fast_track"})
            ELSE IF primary_emotion = "anxiety"
                 THEN Recommend(options, {"structured"})
            ELSE options
    IN  [i \in DOMAIN flagged |->
            flagged[i] @@ ("confidence_score" :> OptionConfidence(flagged[i], precedents))]

PrecedentAnalysisTool_run(args, data) ==
    LET claim_amount == args.claim_amount
        precedents == _load_relevant_precedents(data, args.claim_type, claim_amount)
        n == Len(precedents)
    IN  IF precedents = <<>>
        THEN [recommended_amount        |-> Scale(Frac(claim_amount, 1), 85),
              confidence_level          |-> 30,
              precedent_cases_analyzed  |-> 0,
              settlement_range_min      |-> Scale(Frac(claim_amount, 1), 70),
              settlement_range_max      |-> Scale(Frac(claim_amount, 1), 95),
              estimated_resolution_days |-> 21,
              risk_factors              |-> <<"no_precedent_data">>,
              justification             |->
                  [message |-> "No precedent data available. Using conservative estimate."],
              creative_options          |->
                  _generate_creative_settlement_options(
                      Frac(claim_amount, 1), args.case_complexity,
                      args.emotional_context, <<>>)]
        ELSE LET sum_pct == SumField(precedents, "settlement_percentage")
                 recommended_amount == Frac(claim_amount * sum_pct, 100 * n)
             IN  [recommended_amount        |-> recommended_amount,
                  confidence_level          |-> Min2(n * 10, 100),
                  precedent_cases_analyzed  |-> n,
                  settlement_range_min      |-> Scale(recommended_amount, 90),
                  settlement_range_max      |-> Scale(recommended_amount, 110),
                  estimated_resolution_days |->
                      SumField(precedents, "resolution_time_days") \div n,
                  risk_factors              |->
                      _identify_risk_factors(precedents, claim_amount),
                  justification             |->
                      [message |-> "Based on {n} similar cases with avg settlement of {pct}",
                       n       |-> n,
                       pct     |-> Frac(sum_pct, n)],
                  creative_options          |->
                      _generate_creative_settlement_options(
                          recommended_amount, args.case_complexity,
                          args.emotional_context, precedents)]

RecommendationReturned(r) == "recommended_amount" \in DOMAIN r

\* the precedent_cases the file may hold: two auto cases, a home case and an
\* entry without claim_type
PrecedentCases ==
    { [case_id |-> "P1", claim_type |-> "auto", original_claim |-> 10000,
       settlement_amount |-> 8000, settlement_percentage |-> 80,
       resolution_time_days |-> 15, customer_satisfaction_score |-> 45,
       case_complexity |-> "simple", special_circumstances |-> <<"track">>],
      [case_id |-> "P2", claim_type |-> "auto", original_claim |-> 24000,
       settlement_amount |-> 21600, settlement_percentage |-> 90,
       resolution_time_days |-> 30, customer_satisfaction_score |-> 30,
       case_complexity |-> "moderate", special_circumstances |-> <<>>],
      [case_id |-> "P3", claim_type |-> "home", original_claim |-> 10000,
       settlement_amount |-> 7000, settlement_percentage |-> 70,
       resolution_time_days |-> 20, customer_satisfaction_score |-> 40,
       case_complexity |-> "moderate", special_circumstances |-> <<"structured">>],
      [case_id |-> "P4"] }

\* the file: unreadable, or holding the claim's policy and the precedent cases,
\* either of which may be absent
MockData ==
    {[readable |-> FALSE]}
    \cup { ("readable" :> TRUE) @@ policy @@ cases :
              policy \in OptionalKey("coverage_amount", {10000, 50000}),
              cases \in OptionalKey("precedent_cases", SeqsUpTo(PrecedentCases, MaxCases)) }

PrecedentInit ==
    /\ EscalationIdle
    /\ PipelineIdle
    /\ ComplianceIdle
    /\ SettlementIdle
    /\ AuditIdle
    /\ ServicesIdle
    \* the emotional context: None, {}, and dicts with and without each key
    /\ \E claim_amount \in {0, 10000, 18000, 20000},
          emotional_context \in
              {NoneValue, EmptyDict,
               "primary_emotion" :> "anxiety",
               ("primary_emotion" :> "anxiety") @@ ("stress_level" :> 80),
               "primary_emotion" :> "sadness",
               "stress_level" :> 71,
               ("primary_emotion" :> "neutral") @@ ("stress_level" :> 70)} :
          precedent_args = [claim_type        |-> "auto",
                            claim_amount      |-> claim_amount,
                            case_complexity   |-> "moderate",
                            emotional_context |-> emotional_context]
    /\ mock_data \in MockData
    /\ recommendation = NotCalled

\* recommendation = tool.run(ctx, claim_type, claim_amount, case_complexity,
\*                           emotional_context)
AnalyzePrecedents ==
    /\ ~RecommendationReturned(recommendation)
    /\ recommendation' = PrecedentAnalysisTool_run(precedent_args, mock_data)
    /\ UNCHANGED <<serviceVars, escVars, loopVars, pipelineVars, complianceVars, settlementVars,
                   precedent_args, mock_data, audit_result>>

PrecedentSpec == PrecedentInit /\ [][AnalyzePrecedents]_vars

-----------------------------------------------------------------------------
(* Properties of the precedent analysis *)

OptionTypes == <<"immediate_partial", "structured", "enhanced_service", "fast_track">>

\* C17: the creative options are exactly four, of the types immediate_partial,
\* structured, enhanced_service and fast_track in that order, with or without
\* an emotional context and precedent cases; a recommended flag leaves every
\* option in place, and the primary emotion anxiety flags the structured option.
C17_FourOptions ==
    RecommendationReturned(recommendation) =>
        LET options == recommendation.creative_options
            emotional_context == precedent_args.emotional_context
        IN  /\ Len(options) = 4
            /\ \A i \in 1..4 : options[i].type = OptionTypes[i]
            /\ (/\ ~IsNone(emotional_context)
                /\ Get(emotional_context, "primary_emotion", "neutral") = "anxiety")
                   => "recommended" \in DOMAIN options[2]

\* C18: the recommended amount lies between settlement_range_min and
\* settlement_range_max on both paths, and is at most the coverage amount of the
\* claim's policy when that policy is known.
C18_RecommendationWithinRange ==
    RecommendationReturned(recommendation) =>
        /\ FracLeq(recommendation.settlement_range_min, recommendation.recommended_amount)
        /\ FracLeq(recommendation.recommended_amount, recommendation.settlement_range_max)
        /\ "coverage_amount" \in DOMAIN mock_data =>
              FracLeq(recommendation.recommended_amount,
                      Frac(mock_data.coverage_amount, 1))

\* no case of the file is usable for the claim: the file is unreadable, a case
\* fails while matching, or no case matches
NoPrecedentAvailable ==
    \/ ~mock_data.readable
    \/ LET cases == Get(mock_data, "precedent_cases", <<>>)
       IN  \/ \E i \in 1..Len(cases) :
                 CaseRaises(cases[i], precedent_args.claim_type,
                            precedent_args.claim_amount)
           \/ \A i \in 1..Len(cases) :
                 ~CaseMatches(cases[i], precedent_args.claim_type,
                              precedent_args.claim_amount)

\* C19: when no precedent case is available the analysis returns the fallback
\* recommendation: 85% of the claim amount, confidence 0.3, zero cases analysed,
\* the risk factor no_precedent_data and the four creative options.
C19_FallbackRecommendation ==
    (RecommendationReturned(recommendation) /\ NoPrecedentAvailable) =>
        /\ recommendation.recommended_amount =
              Frac(precedent_args.claim_amount * 85, 100)
        /\ recommendation.confidence_level = 30
        /\ recommendation.precedent_cases_analyzed = 0
        /\ recommendation.risk_factors = <<"no_precedent_data">>
        /\ Len(recommendation.creative_options) = 4
        /\ \A i \in 1..4 : recommendation.creative_options[i].type = OptionTypes[i]

\* a case matched before the loader met the entry without claim_type
C19_Witness ==
    /\ RecommendationReturned(recommendation)
    /\ mock_data.readable
    /\ "precedent_cases" \in DOMAIN mock_data
    /\ Len(mock_data.precedent_cases) = 2
    /\ "claim_type" \in DOMAIN mock_data.precedent_cases[1]
    /\ CaseMatches(mock_data.precedent_cases[1], precedent_args.claim_type,
                   precedent_args.claim_amount)
    /\ "claim_type" \notin DOMAIN mock_data.precedent_cases[2]
    /\ recommendation.risk_factors = <<"no_precedent_data">>

-----------------------------------------------------------------------------
(* AuditTrailManager (src/src/hooks/audit_logger.py) under any sequence of calls *)

MaxEntries == 2

\* AuditTrailManager.generate_compliance_report; report_id and generated_at are
\* a fresh uuid and the clock, and are left out
generate_compliance_report(entries, plan_run_id) ==
    LET plan_entries ==
            SelectSeq(entries, LAMBDA entry : entry.plan_run_id = plan_run_id)
        RECURSIVE Violations(_)
        Violations(es) ==
            IF es = <<>> THEN <<>>
            ELSE check_compliance(Head(es)) \o Violations(Tail(es))
        all_violations == Violations(plan_entries)
        high_risk ==
            SelectSeq(plan_entries, LAMBDA entry :
                entry.risk_indicators # <<>> \/ check_compliance(entry) # <<>>)
        noted == SelectSeq(plan_entries, LAMBDA entry : entry.justification # "")
        total_actions == Len(plan_entries)
    IN  [plan_run_id           |-> plan_run_id,
         total_actions         |-> total_actions,
         compliance_violations |-> all_violations,
         high_risk_actions     |->
             [i \in DOMAIN high_risk |->
                 [action_type |-> high_risk[i].action_type,
                  tool_name   |-> high_risk[i].tool_name]],
         regulatory_notes      |->
             [i \in DOMAIN noted |->
                 [action_type   |-> noted[i].action_type,
                  justification |-> noted[i].justification]],
         summary               |->
             IF all_violations # <<>>
             THEN [message    |-> "Compliance issues detected in {v} out of {n} actions.",
                   violations |-> Len(all_violations),
                   actions    |-> total_actions]
             ELSE [message |-> "All {n} actions compliant with regulations.",
                   actions |-> total_actions]]

\* the JSON value of a field of entry.dict(): a str is a JSON string (entry_id, a
\* uuid string, is the number that stands for it), None is null, an int a number,
\* a list an array and a dict an object
JsonValue(key, value) ==
    CASE key \in {"entry_id", "action_type", "tool_name", "user_id", "plan_run_id"} ->
             [json |-> "string", value |-> value]
      [] key = "justification" ->
             IF value = "" THEN [json |-> "null"]
             ELSE [json |-> "string", value |-> value]
      [] key = "result" ->
             IF IsNone(value) THEN [json |-> "null"]
             ELSE [json |-> "object", value |-> value]
      [] key = "step_index" -> [json |-> "number", value |-> value]
      [] key = "arguments" -> [json |-> "object", value |-> value]
      [] OTHER -> [json |-> "array", value |-> value]

\* json.dumps([entry.dict() for entry in entries], indent=2)
json_dumps(entries) ==
    [i \in DOMAIN entries |->
        [key \in DOMAIN entries[i] |-> JsonValue(key, entries[i][key])]]

\* json.loads(text)
json_loads(text) ==
    [i \in DOMAIN text |->
        [key \in DOMAIN text[i] |->
            IF text[i][key].json = "null" THEN NoneValue ELSE text[i][key].value]]

\* AuditTrailManager.export_audit_trail: the JSON array of entry.dict(), whatever
\* the format argument is
export_audit_trail(entries, plan_run_id, format) ==
    json_dumps(get_full_audit_trail(entries, plan_run_id))

\* what a caller may put in an AuditEntry; a justification of None is ""
AuditEntryInputs ==
    { [action_type |-> "settlement_offer", tool_name |-> "SettlementOfferTool",
       arguments |-> [amount |-> 30000, approvals |-> <<>>],
       compliance_flags |-> <<>>, risk_indicators |-> <<>>, justification |-> ""],
      [action_type |-> "settlement_offer", tool_name |-> "SettlementOfferTool",
       arguments |-> [amount |-> 30000,
                      approvals |-> <<"supervisor_approval", "compliance_review">>],
       compliance_flags |-> <<>>, risk_indicators |-> <<>>,
       justification |-> "approved"],
      [action_type |-> "settlement_offer", tool_name |-> "SettlementOfferTool",
       arguments |-> [amount |-> 25001, approvals |-> <<"compliance_review">>],
       compliance_flags |-> <<"cap_exceeded">>, risk_indicators |-> <<>>,
       justification |-> ""],
      [action_type |-> "settlement_offer", tool_name |-> "SettlementOfferTool",
       arguments |-> [amount |-> 25000, approvals |-> <<>>],
       compliance_flags |-> <<>>, risk_indicators |-> <<>>, justification |-> ""],
      [action_type |-> "claim_validation", tool_name |-> "ClaimValidationTool",
       arguments |-> [complexity |-> "high", documentation |-> <<"legal_review">>],
       compliance_flags |-> <<>>, risk_indicators |-> <<"High stress">>,
       justification |-> ""],
      [action_type |-> "complete_claim_negotiation",
       tool_name |-> "ClaimNegotiationAgent",
       arguments |-> [claim_id |-> 1],
       compliance_flags |-> <<"cap_exceeded">>, risk_indicators |-> <<>>,
       justification |-> ""] }

\* two run ids and the empty string; a plan_run_id argument of None acts as ""
\* does in get_full_audit_trail
PlanRunIds == {"run-1", "run-2", ""}

\* AuditEntry(...): entry_id is a fresh uuid, here the number of the entry
AuditEntry(entry_id, plan_run_id, fields) ==
    [entry_id         |-> entry_id,
     action_type      |-> fields.action_type,
     tool_name        |-> fields.tool_name,
     arguments        |-> fields.arguments,
     result           |-> Get(fields, "result", NoneValue),
     user_id          |-> "system",
     plan_run_id      |-> plan_run_id,
     step_index       |-> 0,
     compliance_flags |-> fields.compliance_flags,
     risk_indicators  |-> fields.risk_indicators,
     justification    |-> fields.justification]

AuditInit ==
    /\ EscalationIdle
    /\ PipelineIdle
    /\ ToolsIdle

\* manager.log_action(AuditEntry(...))
LogAction ==
    /\ Len(audit_entries) < MaxEntries
    /\ \E fields \in AuditEntryInputs, plan_run_id \in PlanRunIds :
          LET entry == AuditEntry(Len(audit_entries) + 1, plan_run_id, fields)
          IN  /\ audit_entries' = log_action(audit_entries, entry)
              /\ audit_result' = [call |-> "log_action", entry |-> entry]
    /\ UNCHANGED <<serviceVars, escVars, loopVars, negotiation, complianceVars, settlementVars,
                   precedentVars>>

\* manager.check_compliance(entry), for a logged entry
CheckCompliance ==
    /\ \E i \in 1..Len(audit_entries) :
          /\ audit_result' = [call     |-> "check_compliance",
                              entry    |-> audit_entries[i],
                              returned |-> check_compliance(audit_entries[i])]
          /\ audit_entries' = [audit_entries EXCEPT ![i] = EntryAfterCheck(@)]
    /\ UNCHANGED <<serviceVars, escVars, loopVars, negotiation, complianceVars, settlementVars,
                   precedentVars>>

\* manager.generate_compliance_report(plan_run_id)
GenerateComplianceReport ==
    /\ \E plan_run_id \in PlanRunIds :
          /\ audit_result' =
              [call        |-> "generate_compliance_report",
               plan_run_id |-> plan_run_id,
               returned    |-> generate_compliance_report(audit_entries, plan_run_id)]
          \* check_compliance runs on every entry of the plan run
          /\ audit_entries' =
                [i \in DOMAIN audit_entries |->
                    IF audit_entries[i].plan_run_id = plan_run_id
                    THEN EntryAfterCheck(audit_entries[i]) ELSE audit_entries[i]]
    /\ UNCHANGED <<serviceVars, escVars, loopVars, negotiation, complianceVars, settlementVars,
                   precedentVars>>

\* manager.get_full_audit_trail(plan_run_id)
GetFullAuditTrail ==
    /\ \E plan_run_id \in PlanRunIds :
          audit_result' =
              [call        |-> "get_full_audit_trail",
               plan_run_id |-> plan_run_id,
               returned    |-> get_full_audit_trail(audit_entries, plan_run_id)]
    /\ UNCHANGED <<serviceVars, escVars, loopVars, pipelineVars, complianceVars, settlementVars,
                   precedentVars>>

\* manager.export_audit_trail(plan_run_id, format)
ExportAuditTrail ==
    /\ \E plan_run_id \in PlanRunIds, format \in {"json", "csv"} :
          audit_result' =
              [call        |-> "export_audit_trail",
               plan_run_id |-> plan_run_id,
               returned    |-> export_audit_trail(audit_entries, plan_run_id, format)]
    /\ UNCHANGED <<serviceVars, escVars, loopVars, pipelineVars, complianceVars, settlementVars,
                   precedentVars>>

AuditNext ==
    \/ LogAction
    \/ CheckCompliance
    \/ GenerateComplianceReport
    \/ GetFullAuditTrail
    \/ ExportAuditTrail

AuditSpec == AuditInit /\ [][AuditNext]_vars

-----------------------------------------------------------------------------
(* Properties of the audit store *)

IsPrefix(s, t) == Len(s) <= Len(t) /\ SubSeq(t, 1, Len(s)) = s

\* C20: the store is append-only.  A log_action call appends its entry, also
\* when check_compliance finds violations in it; every call leaves each logged
\* entry unchanged at its position; and no call but log_action changes the store.
C20_AppendOnly ==
    [][/\ IsPrefix(audit_entries, audit_entries')
       /\ audit_result'.call = "log_action"
             => audit_entries' = Append(audit_entries, audit_result'.entry)
       /\ audit_result'.call # "log_action" => audit_entries' = audit_entries]_vars

\* a non-compliant entry was logged and the store was then read by a report
C20_Witness ==
    /\ Len(audit_entries) = 2
    /\ check_compliance(audit_entries[1]) # <<>>
    /\ audit_result.call = "generate_compliance_report"
    /\ audit_result.returned.total_actions = 1

\* the logged entries whose plan_run_id is p
LoggedFor(p) == SelectSeq(audit_entries, LAMBDA entry : entry.plan_run_id = p)

\* C21: for every plan_run_id string p, generate_compliance_report(p) counts and
\* export_audit_trail(p) exports exactly the logged entries whose plan_run_id is
\* p: none of them is skipped and no entry of another plan_run_id is included.
C21_ScopedByPlanRun ==
    /\ audit_result.call = "generate_compliance_report" =>
          audit_result.returned.total_actions = Len(LoggedFor(audit_result.plan_run_id))
    /\ audit_result.call = "export_audit_trail" =>
          json_loads(audit_result.returned) =
              json_loads(json_dumps(LoggedFor(audit_result.plan_run_id)))

SameReport(r1, r2) ==
    /\ r1.total_actions = r2.total_actions
    /\ r1.compliance_violations = r2.compliance_violations
    /\ r1.high_risk_actions = r2.high_risk_actions
    /\ r1.summary = r2.summary

\* C22: a generate_compliance_report(p) call leaves the store as it was, and a
\* second call for the same p right after it returns the same total_actions,
\* compliance_violations, high_risk_actions and summary.
C22_ReportIdempotent ==
    /\ [][audit_result'.call = "generate_compliance_report" =>
             /\ audit_entries' = audit_entries
             /\ (/\ audit_result.call = "generate_compliance_report"
                 /\ audit_result.plan_run_id = audit_result'.plan_run_id)
                    => SameReport(audit_result.returned, audit_result'.returned)]_vars
    /\ [](audit_result.call = "generate_compliance_report" =>
             SameReport(audit_result.returned,
                        generate_compliance_report(audit_entries,
                                                   audit_result.plan_run_id)))

\* a report that found violations in a store of two entries
C22_Witness ==
    /\ audit_result.call = "generate_compliance_report"
    /\ audit_result.returned.total_actions = 2
    /\ audit_result.returned.compliance_violations # <<>>

\* C23: the exported JSON array of a plan_run_id, parsed again, has one record
\* per entry logged for that plan_run_id, with the same entry_id values in the
\* same order, and the entry_id values of the logged entries are all different.
C23_ExportRoundTrip ==
    /\ audit_result.call = "export_audit_trail" =>
          LET parsed == json_loads(audit_result.returned)
              logged == LoggedFor(audit_result.plan_run_id)
          IN  /\ Len(parsed) = Len(logged)
              /\ \A i \in 1..Len(parsed) : parsed[i].entry_id = logged[i].entry_id
    /\ \A i, j \in 1..Len(audit_entries) :
          audit_entries[i].entry_id = audit_entries[j].entry_id => i = j

RequiredApprovals == <<"supervisor_approval", "compliance_review">>

ApprovalViolations ==
    { "Missing required approvals: ['supervisor_approval', 'compliance_review']",
      "Missing required approvals: ['supervisor_approval']",
      "Missing required approvals: ['compliance_review']" }

\* C26: for a settlement_offer entry with an amount above 25000, check_compliance
\* returns a missing-approvals violation exactly when a required approval is
\* absent, and it lists the absent ones; at or below 25000 it returns none; the
\* entry's compliance_flags are among the violations and the entry is unchanged.
C26_ApprovalCheck ==
    audit_result.call = "check_compliance" =>
        LET entry == audit_result.entry
            violations == SeqToSet(audit_result.returned)
            absent == SelectSeq(RequiredApprovals, LAMBDA req :
                          req \notin SeqToSet(Get(entry.arguments, "approvals", <<>>)))
        IN  /\ entry.action_type = "settlement_offer" =>
                  IF entry.arguments.amount > 25000 /\ absent # <<>>
                  THEN violations \cap ApprovalViolations =
                           {MissingApprovalsText(absent)}
                  ELSE violations \cap ApprovalViolations = {}
            /\ SeqToSet(entry.compliance_flags) \subseteq violations
            /\ audit_entries[entry.entry_id] = entry

\* one of the two approvals is present, and the entry carries a flag of its own
C26_Witness ==
    /\ audit_result.call = "check_compliance"
    /\ audit_result.entry.action_type = "settlement_offer"
    /\ audit_result.entry.arguments.amount = 25001
    /\ audit_result.returned =
          <<"Missing required approvals: ['supervisor_approval']", "cap_exceeded">>

-----------------------------------------------------------------------------
(* EscalationManager._calculate_success_probability                        *)
(* (src/src/agents/escalation_manager.py).  Probabilities are kept in      *)
(* ten-thousandths, so that stress_level (hundredths) * 0.3 is exact: 0.7  *)
(* is 7000 and stress_level * 0.3 is stress_level * 30.                    *)

BaseProbability == 7000
StressWeight == 30
HighValuePenalty == 1000
LegalPenalty == 2000
MinProbability == 1000
MaxProbability == 9500

\* `if context.emotion_analysis:` is false for None and for the empty dict
Truthy(d) == ~IsNone(d) /\ DOMAIN d # {}

SuccessProbabilityIgnoringLegal(ctx) ==
    LET stressed == IF Truthy(ctx.emotion_analysis)
                    THEN BaseProbability
                             - Get(ctx.emotion_analysis, "stress_level", 0) * StressWeight
                    ELSE BaseProbability
        valued == IF ctx.settlement_amount > HighValueThreshold
                  THEN stressed - HighValuePenalty ELSE stressed
    IN  Max2(MinProbability, Min2(MaxProbability, valued))

_calculate_success_probability(ctx) ==
    LET stressed == IF Truthy(ctx.emotion_analysis)
                    THEN BaseProbability
                             - Get(ctx.emotion_analysis, "stress_level", 0) * StressWeight
                    ELSE BaseProbability
        valued == IF ctx.settlement_amount > HighValueThreshold
                  THEN stressed - HighValuePenalty ELSE stressed
        legal == IF ctx.legal_indicators # <<>> THEN valued - LegalPenalty ELSE valued
    IN  Max2(MinProbability, Min2(MaxProbability, legal))

\* an EscalationContext on its way into a handoff package: stress levels over
\* the whole of [0, 1], no stress_level key, no scores at all, amounts on both
\* sides of the high-value threshold, with and without legal indicators
HandoffInit ==
    /\ \E analysis \in {NoneValue, EmptyDict, [primary_emotion |-> "anger"]}
                          \cup {[stress_level |-> s] : s \in {0, 1, 33, 50, 80, 81, 99, 100}},
          amount \in {0, 50000, 50001, 1000000},
          indicators \in {<<>>, <<"lawyer">>, <<"lawyer", "court">>} :
          context = [emotion_analysis  |-> analysis,
                     settlement_amount |-> amount,
                     legal_indicators  |-> indicators]
    /\ emotion_result = EmptyDict
    /\ claim_data = EmptyDict
    /\ escalation_evaluation = NotCalled
    /\ simple_evaluation = NotCalled
    /\ unchecked = {}
    /\ loop = LoopStart
    /\ PipelineIdle
    /\ ToolsIdle

\* manager._calculate_success_probability(context)
CalculateSuccessProbability ==
    /\ success_probability' = [value |-> _calculate_success_probability(context)]
    /\ UNCHANGED <<coreVars, hume, policy_lookup, hook_call, conversation, recovery>>

HandoffSpec == HandoffInit /\ [][CalculateSuccessProbability]_vars

\* C27: the success probability is 0.7 minus 0.3 times the stress level, minus
\* 0.1 when the settlement amount is above 50000, minus 0.2 when there are legal
\* indicators, and it lies in [0.1, 0.95].
C27_SuccessProbability ==
    "value" \in DOMAIN success_probability =>
        LET stress == IF "stress_level" \in DOMAIN context.emotion_analysis
                      THEN context.emotion_analysis.stress_level ELSE 0
            high == IF context.settlement_amount > 50000 THEN 1000 ELSE 0
            legal == IF Len(context.legal_indicators) > 0 THEN 2000 ELSE 0
        IN  /\ success_probability.value = 7000 - 30 * stress - high - legal
            /\ success_probability.value >= 1000
            /\ success_probability.value <= 9500

\* full stress, a high-value claim and a legal indicator: the lowest value, 0.1
C27_Witness ==
    /\ "value" \in DOMAIN success_probability
    /\ context.emotion_analysis = [stress_level |-> 100]
    /\ context.settlement_amount = 50001
    /\ context.legal_indicators = <<"lawyer">>
    /\ success_probability.value = 1000

-----------------------------------------------------------------------------
(* HumeEmotionAnalysisTool.run (src/src/voice/hume_integration.py): the     *)
(* call of the external emotion service, step by step.  Each request to    *)
(* the service is one action whose outcome is chosen from what the service *)
(* and the network can do; the except clauses of the code are the branches *)
(* of the action.  Scores are in hundredths.                               *)

JOB_POLL_MAX_ATTEMPTS == 30

\* audio_data strings: with and without the words the fallback looks for
AudioInputs ==
    { <<>>, <<"U","k","l","G">>, <<"M","A","D">>, <<"a","n","g","r","y">>,
      <<"u","p","s","e","t">>, <<"S","a","d">> }

_generate_mock_emotion_analysis(audio_data) ==
    IF \/ Contains(Lower(audio_data), <<"a","n","g","r","y">>)
       \/ Contains(Lower(audio_data), <<"m","a","d">>)
    THEN [primary_emotion |-> "anger",
          emotion_scores  |-> [anger |-> 80, frustration |-> 70, sadness |-> 30],
          stress_level |-> 85, confidence |-> 90,
          transcript |-> "I'm really angry about this claim denial!",
          intervention_recommended |-> TRUE]
    ELSE IF \/ Contains(Lower(audio_data), <<"s","a","d">>)
            \/ Contains(Lower(audio_data), <<"u","p","s","e","t">>)
    THEN [primary_emotion |-> "sadness",
          emotion_scores  |-> [sadness |-> 90, distress |-> 60, anxiety |-> 40],
          stress_level |-> 70, confidence |-> 85,
          transcript |-> "I'm just so sad about losing my car in the accident.",
          intervention_recommended |-> FALSE]
    ELSE [primary_emotion |-> "neutral",
          emotion_scores  |-> [calmness |-> 70, contentment |-> 50],
          stress_level |-> 20, confidence |-> 80,
          transcript |-> "I'd like to discuss my insurance claim.",
          intervention_recommended |-> FALSE]

\* _parse_hume_response on predictions that hold one Anger score and a transcript
ParsedPredictions(score) ==
    [primary_emotion |-> IF score > 0 THEN "anger" ELSE "neutral",
     emotion_scores  |-> [Anger |-> score],
     stress_level |-> Min2(score \div 5, 100), confidence |-> score,
     transcript |-> "transcribed speech",
     intervention_recommended |-> (score \div 5 > 70 \/ score > 60)]

\* `for attempt in range(max_polls)` goes round once more
RangeInclusive(attempt) == attempt <= JOB_POLL_MAX_ATTEMPTS

InRange(attempt) == attempt < JOB_POLL_MAX_ATTEMPTS

\* the frame of run when it returns result
Return(frame, event, result) ==
    [frame EXCEPT !.pc = "returned", !.last_event = event, !.result = result]

\* every fallback of run and of the methods below it
Fallback(frame, event) ==
    Return(frame, event, _generate_mock_emotion_analysis(frame.audio_data))

HumeInit ==
    /\ EscalationIdle
    /\ PipelineIdle
    /\ ComplianceIdle /\ SettlementIdle /\ PrecedentIdle /\ AuditIdle
    /\ success_probability = NotCalled
    /\ recovery = NoneValue
    /\ conversation = NoneValue
    /\ policy_lookup = [called |-> FALSE]
    /\ hook_call = [called |-> FALSE]
    /\ \E audio_data \in AudioInputs, use_mock \in BOOLEAN :
          hume = [pc |-> "run", audio_data |-> audio_data, use_mock |-> use_mock,
                  attempt |-> 0, polls |-> 0, last_event |-> "none",
                  result |-> NoneValue]

\* run: the mock when the keys are missing, else _analyze_with_hume_ai
Run ==
    /\ hume.pc = "run"
    /\ hume' = IF hume.use_mock
               THEN Return(hume, "mock", _generate_mock_emotion_analysis(hume.audio_data))
               ELSE [hume EXCEPT !.pc = "sdk"]
    /\ UNCHANGED <<coreVars, success_probability, policy_lookup, hook_call, conversation, recovery>>

\* _analyze_with_hume_sdk.  Without the SDK it goes to the direct API.  With
\* it, the audio may not be base64, and File.from_path names a File that the
\* module never imports: both end in `except Exception`, before any poll.
AnalyzeWithHumeSdk ==
    /\ hume.pc = "sdk"
    /\ \E event \in {"ImportError", "binascii.Error", "NameError"} :
          hume' = IF event = "ImportError"
                  THEN [hume EXCEPT !.pc = "submit", !.last_event = event]
                  ELSE Fallback(hume, event)
    /\ UNCHANGED <<coreVars, success_probability, policy_lookup, hook_call, conversation, recovery>>

\* _analyze_with_direct_api up to the poll: decode, POST the job
SubmitJob ==
    /\ hume.pc = "submit"
    /\ \E event \in {"201", "503", "binascii.Error", "Timeout", "RequestException",
                     "Exception"} :
          hume' = IF event = "201"
                  THEN [hume EXCEPT !.pc = "poll", !.attempt = 0, !.last_event = event]
                  ELSE Fallback(hume, event)
    /\ UNCHANGED <<coreVars, success_probability, policy_lookup, hook_call, conversation, recovery>>

\* one round of the loop of _poll_hume_results: one GET of the job status
PollStatus ==
    /\ hume.pc = "poll"
    /\ \E event \in {"404", "IN_PROGRESS", "COMPLETED", "COMPLETED,503", "COMPLETED,{}",
                     "FAILED", "CANCELED", "Timeout", "RequestException",
                     "Exception"} :
          LET polled == [hume EXCEPT !.polls = @ + 1, !.last_event = event] IN
          hume' =
              CASE event = "COMPLETED" -> [polled EXCEPT !.pc = "parse"]
                \* `if result:` is false for empty predictions
                [] event = "COMPLETED,{}" -> Fallback(polled, event)
                \* break, return None
                [] event \in {"FAILED", "CANCELED", "RequestException", "Exception"} ->
                      Fallback(polled, event)
                \* the next round, or return None after the last one
                [] OTHER ->
                      IF InRange(hume.attempt + 1)
                      THEN [polled EXCEPT !.attempt = @ + 1]
                      ELSE Fallback(polled, event)
    /\ UNCHANGED <<coreVars, success_probability, policy_lookup, hook_call, conversation, recovery>>

\* _parse_hume_response(result, audio_data)
ParseResponse ==
    /\ hume.pc = "parse"
    /\ \E event \in {"parsed", "IndexError"}, score \in {0, 61, 95} :
          hume' = IF event = "parsed"
                  THEN Return(hume, event, ParsedPredictions(score))
                  ELSE Fallback(hume, event)
    /\ UNCHANGED <<coreVars, success_probability, policy_lookup, hook_call, conversation, recovery>>

HumeNext ==
    \/ Run
    \/ AnalyzeWithHumeSdk
    \/ SubmitJob
    \/ PollStatus
    \/ ParseResponse

HumeSpec == HumeInit /\ [][HumeNext]_vars

\* run is sequential code and every request carries a timeout
HumeLiveSpec == HumeSpec /\ WF_vars(HumeNext)

-----------------------------------------------------------------------------
(* PolicyLookupTool.run (src/src/tools/policy_tools.py).  The outcome of a  *)
(* call is either [returned |-> value] or [raised |-> exception class].    *)

MaxPolicies == 2

RequiredPolicyFields ==
    {"policy_number", "customer_id", "policy_type", "coverage_amount", "deductible",
     "status", "effective_date", "expiration_date"}

\* a record of the "policies" array
PolicyRecord(policy_number, premium_key) ==
    (premium_key :> 1200) @@
    [policy_number |-> policy_number, customer_id |-> "CUST-001", policy_type |-> "auto",
     coverage_amount |-> 250000, deductible |-> 1000, status |-> "active",
     effective_date |-> "2024-01-01", expiration_date |-> "2025-01-01"]

\* PolicyInfo(**converted_policy)
PolicyInfo(policy) ==
    [policy_number |-> policy.policy_number, customer_id |-> policy.customer_id,
     policy_type |-> policy.policy_type, coverage_amount |-> policy.coverage_amount,
     deductible |-> policy.deductible,
     premium_amount |-> Get(policy, "premium", Get(policy, "premium_amount", 0)),
     status |-> policy.status, effective_date |-> policy.effective_date,
     expiration_date |-> policy.expiration_date,
     exclusions |-> Get(policy, "exclusions", <<>>),
     additional_coverages |-> Get(policy, "additional_coverages", EmptyDict)]

\* the for loop over policies, from index i: the first record with the number
LookupFrom(policies, policy_number, i) ==
    LET matching == {k \in i..Len(policies) :
                        Get(policies[k], "policy_number", "") = policy_number}
    IN  IF matching = {} THEN [raised |-> "PolicyNotFoundError"]
        ELSE LET policy == policies[CHOOSE k \in matching : \A m \in matching : k <= m]
             IN  IF RequiredPolicyFields \subseteq DOMAIN policy
                 THEN [returned |-> PolicyInfo(policy)]
                 ELSE [raised |-> "ConfigurationError"]

\* file is what is at MOCK_POLICY_DB_PATH: no file, a file that cannot be read,
\* text that is not JSON, or the parsed JSON object
PolicyLookupTool_run(file, policy_number) ==
    IF file.state # "json" THEN [raised |-> "ConfigurationError"]
    ELSE IF ~file.policies_is_list THEN [raised |-> "ConfigurationError"]
    ELSE LookupFrom(file.policies, policy_number, 1)

PolicyInit ==
    /\ EscalationIdle
    /\ PipelineIdle
    /\ ComplianceIdle /\ SettlementIdle /\ PrecedentIdle /\ AuditIdle
    /\ success_probability = NotCalled
    /\ recovery = NoneValue
    /\ conversation = NoneValue
    /\ hume = [pc |-> "idle"]
    /\ hook_call = [called |-> FALSE]
    /\ \E policy_number \in {"POL-2024-001", "POL-2024-002", "NONEXISTENT-POLICY"},
          file \in {[state |-> s] : s \in {"missing", "unreadable", "invalid"}}
                   \cup {[state |-> "json", policies_is_list |-> FALSE]}
                   \cup {[state |-> "json", policies_is_list |-> TRUE, policies |-> p] :
                           p \in SeqsUpTo({PolicyRecord("POL-2024-001", "premium_amount"),
                                           PolicyRecord("POL-2024-001", "premium"),
                                           PolicyRecord("POL-2024-002", "premium_amount"),
                                           [policy_number |-> "POL-2024-002"]},
                                          MaxPolicies)} :
          policy_lookup = [called |-> FALSE, file |-> file, policy_number |-> policy_number]

\* result = tool.run(ctx, policy_number)
PolicyLookup ==
    /\ ~policy_lookup.called
    /\ policy_lookup' =
          [policy_lookup EXCEPT !.called = TRUE] @@
          [outcome |-> PolicyLookupTool_run(policy_lookup.file, policy_lookup.policy_number)]
    /\ UNCHANGED <<coreVars, success_probability, hume, hook_call, conversation, recovery>>

PolicySpec == PolicyInit /\ [][PolicyLookup]_vars

\* the policy numbers of a readable database
PolicyNumbersOf(file) ==
    IF file.state = "json" /\ file.policies_is_list
    THEN {Get(file.policies[k], "policy_number", "") : k \in 1..Len(file.policies)}
    ELSE {}

\* C25: run never raises when the policy is unknown or the database cannot be
\* read: it returns None then, and when a policy with the requested number
\* exists it returns the PolicyInfo with that policy_number.
C25_AbsentResult ==
    policy_lookup.called =>
        /\ "returned" \in DOMAIN policy_lookup.outcome
        /\ IF policy_lookup.policy_number \in PolicyNumbersOf(policy_lookup.file)
           THEN /\ ~IsNone(policy_lookup.outcome.returned)
                /\ policy_lookup.outcome.returned.policy_number = policy_lookup.policy_number
           ELSE IsNone(policy_lookup.outcome.returned)

-----------------------------------------------------------------------------
(* InsuranceExecutionHooks.before_tool_call                                 *)
(* (src/src/hooks/escalation_triggers.py).  stress_level is in hundredths. *)

OversightAmount == 25000
HookStressThreshold == 80
HookEmotionStressThreshold == 70

\* what an instance of AuditLoggerTool has: __init__ sets audit_manager, the
\* class defines log_action and nothing else
AuditLoggerToolAttributes == {"audit_manager", "log_action"}

_requires_human_oversight(tool_name, args) ==
    CASE tool_name = "SettlementOfferTool" -> Get(args, "amount", 0) > OversightAmount
      [] tool_name = "ClaimValidationTool" ->
            Get(args, "complexity", "simple") \in {"complex", "high"}
      [] tool_name = "ComplianceCheckTool" -> ~Get(args, "compliant", TRUE)
      [] OTHER -> FALSE

_detect_legal_threats(args) ==
    \E field \in {"message", "notes", "customer_input"} :
        \E k \in 1..Len(LegalKeywords) :
            Contains(Lower(Get(args, field, <<>>)), LegalKeywords[k])

_detect_extreme_distress(args) ==
    \/ Get(args, "stress_level", 0) > HookStressThreshold
    \/ /\ Get(args, "primary_emotion", "neutral") \in {"anger", "distress", "anxiety"}
       /\ Get(args, "stress_level", 0) > HookEmotionStressThreshold

_evaluate_escalation_triggers(tool_name, kwargs) ==
    \/ _requires_human_oversight(tool_name, kwargs)
    \/ _detect_legal_threats(kwargs)
    \/ _detect_extreme_distress(kwargs)

UserVerificationClarification(tool_name) ==
    [tool |-> tool_name, verification_type |-> "escalation_approval"]

\* self.audit_logger.run(...) is an attribute lookup on AuditLoggerTool first:
\* when there is no such attribute the AttributeError leaves the try block, the
\* handler logs it, and the hook returns None
before_tool_call(tool_name, kwargs) ==
    IF "run" \notin AuditLoggerToolAttributes THEN NoneValue
    ELSE IF _evaluate_escalation_triggers(tool_name, kwargs)
    THEN UserVerificationClarification(tool_name)
    ELSE NoneValue

HooksInit ==
    /\ EscalationIdle
    /\ PipelineIdle
    /\ ComplianceIdle /\ SettlementIdle /\ PrecedentIdle /\ AuditIdle
    /\ success_probability = NotCalled
    /\ recovery = NoneValue
    /\ conversation = NoneValue
    /\ hume = [pc |-> "idle"]
    /\ policy_lookup = [called |-> FALSE]
    /\ \E tool_name \in {"SettlementOfferTool", "ClaimValidationTool",
                         "ComplianceCheckTool", "PolicyLookupTool"},
          amount \in OptionalKey("amount", {25000, 25001}),
          complexity \in OptionalKey("complexity", {"simple", "complex", "high"}),
          compliant \in OptionalKey("compliant", {TRUE, FALSE}),
          message \in OptionalKey("message", {W_Lawyer, W_action}),
          stress \in OptionalKey("stress_level", {70, 71, 80, 81}),
          emotion \in OptionalKey("primary_emotion", {"anger", "sadness"}) :
          hook_call = [called |-> FALSE, tool_name |-> tool_name,
                       kwargs |-> amount @@ complexity @@ compliant @@ message
                                     @@ stress @@ emotion]

\* hooks.before_tool_call(ctx, tool, **kwargs)
BeforeToolCall ==
    /\ ~hook_call.called
    /\ hook_call' = [hook_call EXCEPT !.called = TRUE] @@
                    [returned |-> before_tool_call(hook_call.tool_name, hook_call.kwargs)]
    /\ UNCHANGED <<coreVars, success_probability, hume, policy_lookup, conversation, recovery>>

HooksSpec == HooksInit /\ [][BeforeToolCall]_vars

\* C28: before_tool_call returns a human-approval clarification for every tool
\* call that meets an escalation trigger (a settlement offer above 25000, a
\* complex or high-complexity claim validation, a non-compliant compliance
\* check, a legal keyword in the message fields, extreme distress) and None only
\* when none is met, whether or not the audit logging before it succeeded.
C28_ClarificationIffTrigger ==
    hook_call.called =>
        LET tool_name == hook_call.tool_name
            kwargs == hook_call.kwargs
            stress == IF "stress_level" \in DOMAIN kwargs THEN kwargs.stress_level ELSE 0
            met == \/ tool_name = "SettlementOfferTool" /\ "amount" \in DOMAIN kwargs
                      /\ kwargs.amount > 25000
                   \/ tool_name = "ClaimValidationTool" /\ "complexity" \in DOMAIN kwargs
                      /\ kwargs.complexity \in {"complex", "high"}
                   \/ tool_name = "ComplianceCheckTool" /\ "compliant" \in DOMAIN kwargs
                      /\ kwargs.compliant = FALSE
                   \/ "message" \in DOMAIN kwargs /\ kwargs.message = W_Lawyer
                   \/ stress > 80
                   \/ "primary_emotion" \in DOMAIN kwargs
                      /\ kwargs.primary_emotion = "anger" /\ stress > 70
        IN  IsNone(hook_call.returned) <=> ~met

-----------------------------------------------------------------------------
(* ConversationState (src/src/utils/conversation_state.py).  The variable   *)
(* holds the fields of one session and, in flag_calls, the reasons that     *)
(* flag_for_escalation has been called with.                               *)

MaxHistory == 2

\* ClaimContext(...) as set_claim_context builds it: settlement_offer and
\* escalation_needed take the defaults of the dataclass
ClaimContext(data) ==
    [claim_id          |-> Get(data, "claim_id", ""),
     estimated_amount  |-> Get(data, "estimated_amount", 0),
     status            |-> Get(data, "status", "in_progress"),
     settlement_offer  |-> NoneValue,
     escalation_needed |-> FALSE,
     metadata          |-> data]

_update_interaction_summary(summary, turn) ==
    IF turn.speaker = "customer"
    THEN IF Truthy(turn.emotion_analysis)
         THEN [customer_emotions |->
                   Append(Get(summary, "customer_emotions", <<>>),
                          [emotion |-> Get(turn.emotion_analysis, "primary_emotion", "neutral"),
                           stress_level |-> Get(turn.emotion_analysis, "stress_level", 0)]),
               current_emotion |-> Get(turn.emotion_analysis, "primary_emotion", "neutral"),
               current_stress  |-> Get(turn.emotion_analysis, "stress_level", 0)] @@ summary
         ELSE summary
    ELSE IF turn.speaker = "agent"
    THEN [agent_actions |-> Get(summary, "agent_actions", <<>>) \o turn.tool_calls] @@ summary
    ELSE summary

get_conversation_summary(state) ==
    [total_turns        |-> Len(state.conversation_history),
     customer_turns     |-> Len(SelectSeq(state.conversation_history,
                                          LAMBDA t : t.speaker = "customer")),
     agent_turns        |-> Len(SelectSeq(state.conversation_history,
                                          LAMBDA t : t.speaker = "agent")),
     escalation_needed  |-> IF IsNone(state.claim_context) THEN FALSE
                            ELSE state.claim_context.escalation_needed,
     claim_status       |-> IF IsNone(state.claim_context) THEN "no_claim"
                            ELSE state.claim_context.status,
     settlement_offered |-> IF IsNone(state.claim_context) THEN FALSE
                            ELSE Truthy(state.claim_context.settlement_offer),
     interaction_summary |-> state.interaction_summary]

\* ConversationState(session_id)
ConversationInit ==
    /\ EscalationIdle
    /\ PipelineIdle
    /\ ComplianceIdle /\ SettlementIdle /\ PrecedentIdle /\ AuditIdle
    /\ success_probability = NotCalled
    /\ recovery = NoneValue
    /\ hume = [pc |-> "idle"]
    /\ policy_lookup = [called |-> FALSE]
    /\ hook_call = [called |-> FALSE]
    /\ conversation = [conversation_history |-> <<>>,
                       claim_context        |-> NoneValue,
                       interaction_summary  |-> EmptyDict,
                       flag_calls           |-> {}]

\* state.add_turn(speaker, message, emotion_analysis, tool_calls)
AddTurn ==
    /\ Len(conversation.conversation_history) < MaxHistory
    /\ \E turn \in {[speaker |-> "customer", emotion_analysis |-> NoneValue, tool_calls |-> <<>>],
                    [speaker |-> "customer", tool_calls |-> <<>>,
                     emotion_analysis |-> [primary_emotion |-> "anger", stress_level |-> 85]],
                    [speaker |-> "agent", emotion_analysis |-> NoneValue,
                     tool_calls |-> <<"policy_lookup">>]} :
          conversation' =
              [conversation EXCEPT
                  !.conversation_history = Append(@, turn),
                  !.interaction_summary = _update_interaction_summary(@, turn)]
    /\ UNCHANGED <<coreVars, success_probability, hume, policy_lookup, hook_call, recovery>>

\* state.set_claim_context(claim_data)
SetClaimContext ==
    /\ \E data \in {[claim_id |-> "CLM-1", estimated_amount |-> 10000],
                          [claim_id |-> "CLM-1", estimated_amount |-> 10000,
                           status |-> "under_review"]} :
          conversation' = [conversation EXCEPT !.claim_context = ClaimContext(data)]
    /\ UNCHANGED <<coreVars, success_probability, hume, policy_lookup, hook_call, recovery>>

\* state.update_settlement_offer(settlement_data)
UpdateSettlementOffer ==
    /\ \E settlement_data \in {EmptyDict, [amount |-> 8000]} :
          conversation' =
              IF IsNone(conversation.claim_context) THEN conversation
              ELSE [conversation EXCEPT !.claim_context.settlement_offer = settlement_data]
    /\ UNCHANGED <<coreVars, success_probability, hume, policy_lookup, hook_call, recovery>>

\* state.flag_for_escalation(reason)
FlagForEscalation ==
    /\ \E reason \in {"legal_threat", "extreme_distress"} :
          conversation' =
              IF IsNone(conversation.claim_context)
              THEN [conversation EXCEPT !.flag_calls = @ \cup {reason}]
              ELSE [conversation EXCEPT
                      !.flag_calls = @ \cup {reason},
                      !.claim_context.escalation_needed = TRUE,
                      !.claim_context.metadata =
                          ("escalation_reason" :> reason) @@ @]
    /\ UNCHANGED <<coreVars, success_probability, hume, policy_lookup, hook_call, recovery>>

ConversationNext ==
    \/ AddTurn
    \/ SetClaimContext
    \/ UpdateSettlementOffer
    \/ FlagForEscalation

ConversationSpec == ConversationInit /\ [][ConversationNext]_vars

\* C29: once flag_for_escalation has been called on a session, the
\* escalation_needed of get_conversation_summary is true, whatever add_turn,
\* update_settlement_offer and set_claim_context calls come after it.
C29_EscalationSticky ==
    conversation.flag_calls # {} =>
        get_conversation_summary(conversation).escalation_needed

-----------------------------------------------------------------------------
(* ErrorRecoveryManager (src/src/utils/error_handling.py).  A string that   *)
(* is put together from parts is the sequence of its parts: the error key  *)
(* f"{component}_{type(error).__name__}" is <<component, "_", type name>>  *)
(* and a component name alone is <<component>>.  Of the component names of *)
(* system_health none is the beginning of another.                         *)

MaxErrors == 6
DegradedAfter == 3
FailedAfter == 5

Components == {"emotion_analysis", "policy_lookup"}

ErrorTypes == {"APIError", "Timeout"}

ErrorKey(component, error_type) == <<component, "_", error_type>>

\* k.startswith(component)
StartsWith(key, component) == SubSeq(key, 1, 1) = <<component>>

\* self.error_counts.get(component, 0)
CountOfComponent(error_counts, component) == Get(error_counts, <<component>>, 0)

record_error(manager, component, error_type) ==
    LET error_key == ErrorKey(component, error_type)
        count == Get(manager.error_counts, error_key, 0) + 1
    IN  [error_counts  |-> (error_key :> count) @@ manager.error_counts,
         system_health |->
             [manager.system_health EXCEPT
                 ![component] = IF count >= FailedAfter THEN "failed"
                                ELSE IF count >= DegradedAfter THEN "degraded"
                                ELSE @],
         last |-> [call |-> "record_error", component |-> component]]

record_success(manager, component) ==
    LET error_counts ==
            [key \in DOMAIN manager.error_counts |->
                IF StartsWith(key, component) /\ manager.error_counts[key] > 0
                THEN Max2(0, manager.error_counts[key] - 1)
                ELSE manager.error_counts[key]]
        health == manager.system_health[component]
    IN  [error_counts  |-> error_counts,
         system_health |->
             [manager.system_health EXCEPT
                 ![component] =
                     IF health = "failed" /\ CountOfComponent(error_counts, component) = 0
                     THEN "degraded"
                     ELSE IF health = "degraded"
                             /\ CountOfComponent(error_counts, component) = 0
                     THEN "healthy"
                     ELSE @],
         last |-> [call |-> "record_success", component |-> component]]

\* ErrorRecoveryManager()
RecoveryInit ==
    /\ EscalationIdle
    /\ PipelineIdle
    /\ ComplianceIdle /\ SettlementIdle /\ PrecedentIdle /\ AuditIdle
    /\ success_probability = NotCalled
    /\ conversation = NoneValue
    /\ hume = [pc |-> "idle"]
    /\ policy_lookup = [called |-> FALSE]
    /\ hook_call = [called |-> FALSE]
    /\ recovery = [error_counts  |-> EmptyDict,
                   system_health |-> [component \in Components |-> "healthy"],
                   last          |-> [call |-> "none"]]

\* manager.record_error(component, error)
RecordError ==
    /\ \E component \in Components, error_type \in ErrorTypes :
          /\ Get(recovery.error_counts, ErrorKey(component, error_type), 0) < MaxErrors
          /\ recovery' = record_error(recovery, component, error_type)
    /\ UNCHANGED <<coreVars, success_probability, hume, policy_lookup, hook_call,
                   conversation>>

\* manager.record_success(component)
RecordSuccess ==
    /\ \E component \in Components :
          recovery' = record_success(recovery, component)
    /\ UNCHANGED <<coreVars, success_probability, hume, policy_lookup, hook_call,
                   conversation>>

RecoveryNext == RecordError \/ RecordSuccess

RecoverySpec == RecoveryInit /\ [][RecoveryNext]_vars

HealthLevel(health) == CASE health = "healthy" -> 0 [] health = "degraded" -> 1 [] OTHER -> 2

\* the error counts recorded for a component
CountsOf(manager, component) ==
    {manager.error_counts[key] : key \in {k \in DOMAIN manager.error_counts :
                                              k[1] = component}}

\* C30: error counts are never negative; the third recorded error of one type
\* makes the component degraded and the fifth makes it failed; record_success
\* improves the component's health, by one level, only when every error count
\* of that component is back to zero.
C30_HealthTracksErrors ==
    /\ [](\A key \in DOMAIN recovery.error_counts : recovery.error_counts[key] >= 0)
    /\ [][recovery'.last.call = "record_error" =>
             LET health == recovery'.system_health[recovery'.last.component]
             IN  \A key \in DOMAIN recovery'.error_counts :
                     Get(recovery.error_counts, key, 0) # recovery'.error_counts[key] =>
                         /\ recovery'.error_counts[key] >= 3 =>
                                health \in {"degraded", "failed"}
                         /\ recovery'.error_counts[key] >= 5 => health = "failed"]_vars
    /\ [][recovery'.last.call = "record_success" =>
             LET component == recovery'.last.component
                 before == HealthLevel(recovery.system_health[component])
                 after == HealthLevel(recovery'.system_health[component])
             IN  /\ after \in {before, before - 1}
                 /\ after < before => CountsOf(recovery', component) \subseteq {0}]_vars

=============================================================================
